---- MODULE Spec2Model ----
(***************************************************************************)
(* Whale identity tracking of bitpulse/spoofing-analytics:                 *)
(* src/src/tracking/whale_tracker.py (TrackedWhale, WhaleTracker).         *)
(*                                                                         *)
(* Prices are integers counting thousandths of the quote unit, so that     *)
(* int(price) is price \div 1000 and the relative tolerances (0.1% for the *)
(* price, 20% for the size) are compared exactly, by cross-multiplication. *)
(* time.time() is a millisecond counter `now`: int(time.time() * 1000) is  *)
(* `now` itself, and memory_seconds is compared in milliseconds.           *)
(* TrackedWhale objects live in the heap `whales`; the dict                *)
(* active_whales[symbol], the list recent_whales[symbol] and the list      *)
(* whale_history hold references (heap indices), as the Python containers  *)
(* hold references to the same objects.                                    *)
(*                                                                         *)
(* Of TrackedWhale the tracker part keeps the fields the tracker reads or  *)
(* that its properties are about: whale_id, symbol, side, first_seen,      *)
(* last_seen, current_price, current_size, disappearances, total_duration. *)
(* The spoof scoring that process_snapshot_whales runs on a disappeared    *)
(* whale changes total_spoofs_detected alone and is not part of Spec.      *)
(*                                                                         *)
(* Spoof scoring, src/src/tracking/spoof_detector.py                       *)
(* (EnhancedSpoofDetector.calculate_spoof_score), is specified on its own  *)
(* by ScoreSpec: the initial states draw the whale, the symbol, the        *)
(* duration, the mid price and the stored market contexts, and ScoreCall   *)
(* applies the function and updates the statistics counters. Fractions     *)
(* are scaled to integers and compared by cross-multiplication.            *)
(*                                                                         *)
(* ContextSpec covers OrderBookSnapshot.from_raw_data                      *)
(* (src/src/models/order_book.py) and update_market_context of the         *)
(* detector. StreamSpec covers the websocket manager                       *)
(* (src/src/collectors/websocket_manager.py), the steps of                 *)
(* process_order_book, start and stop (src/src/whale_monitor.py) and the   *)
(* CSV write queue (src/src/storage/csv_logger.py): every connection is a  *)
(* WebSocketApp with its thread, and the thread's position is the state    *)
(* of the connection.                                                      *)
(*                                                                         *)
(* UpdateSpec covers TrackedWhale.update with all the fields it writes.    *)
(* SharedSpec covers the ingestion threads that create whales in the one   *)
(* WhaleTracker: `total_whales_tracked += 1` is a load, an add and a       *)
(* store. CsvSpec covers CSVLogger (the log_* calls, the writer thread,    *)
(* stop), and CsvFairSpec adds the scheduling of its threads. DetectSpec   *)
(* covers OrderBookAnalyzer.detect_spoofing                                *)
(* (src/src/analyzers/order_book_analyzer.py) over snapshot histories.     *)
(***************************************************************************)
EXTENDS Integers, Sequences, FiniteSets, TLC

\* ------------------------------------------------------------------ bounds
MaxWhales == 2       \* whales created in one run
MaxHistory == 2      \* disappearance events in one run
MaxTicks == 1        \* clock advances in one run
MaxDisappearances == 4   \* largest disappearance count of a scored whale
MaxCalls == 2        \* calls of calculate_spoof_score in one run
MaxUpdates == 2      \* order-book updates that arrive on one stream in one run
MaxErrors == 1       \* exceptions raised during processing in one run
MaxObservations == 2 \* update calls on the TrackedWhale on its own
MaxCreates == 3      \* whales one ingestion thread creates in one run
MaxLogged == 3       \* log_* calls on the CSV logger in one run
MaxSnapshots == 10   \* snapshots appended to snapshot_history in one run
MaxStalls == 1       \* gaps longer than the stream's speed in one history

\* ------------------------------------------------------- program constants
PriceTolNum == 1     \* price_tolerance = 0.001 = PriceTolNum / PriceTolDen
PriceTolDen == 1000
SizeTolNum == 1      \* size_tolerance = 0.20 = SizeTolNum / SizeTolDen
SizeTolDen == 5
memory_seconds == 300
MsPerSecond == 1000  \* int(time.time() * 1000)
LooseFactor == 2     \* self.price_tolerance * 2, self.size_tolerance * 2

\* ------------------------------------------------------------------ inputs
Symbols == {"BTCUSDT", "ETHUSDT"}
Sides == {"bid", "ask"}
Prices == {999, 1000, 1001, 1002}
Sizes == {10, 13}
\* the order-book levels fed to identify_whale: <<symbol, side, price, size>>.
\* One (symbol, side) gets every price and size, the others one level each.
Levels ==
    ({"BTCUSDT"} \X {"bid"} \X Prices \X Sizes)
        \cup {<<"BTCUSDT", "ask", 1000, 10>>, <<"ETHUSDT", "bid", 1000, 10>>}
\* a short step, exactly the memory window, and just over the memory window
TickSteps == {1, memory_seconds * MsPerSecond, memory_seconds * MsPerSecond + 1}

VARIABLES
    now,                  \* time.time(), in milliseconds
    ticks,                \* number of clock advances so far (bounds the run)
    whales,               \* heap of TrackedWhale objects, in creation order
    active_whales,        \* symbol -> dict whale_id -> whale, as the sequence
                          \*   of the dict's values in insertion order
    whale_index,          \* symbol -> side -> set of whale ids
    recent_whales,        \* symbol -> list of whales
    whale_history,        \* list of whales
    total_whales_tracked, \* counter
    ret,                  \* what the last call returned
    ghost,                \* per whale, bookkeeping of the properties and not
                          \*   of the code: reactivations (times reactivated),
                          \*   closed (active intervals ended), active_since
                          \*   (start of the current or last active interval),
                          \*   active_sum (sum of last_seen - active_since over
                          \*   the ended intervals)
    call,                 \* arguments of the calculate_spoof_score calls
    market_contexts,      \* detector: symbol -> MarketContext
    stats,                \* detector: statistics counters
    score,                \* the SpoofScore the last call returned
    snapshot,             \* the OrderBookSnapshot built last
    order_history,        \* detector: symbol -> rolling sample of orders
    mgr_running,          \* BinanceWebSocketManager.running
    conns,                \* heap of connections: a WebSocketApp with its
                          \*   thread; state is the thread's position
    connections,          \* stream -> connection (self.connections and
                          \*   self.threads, which are written together)
    reconnect_attempts,   \* stream -> attempts counted by on_close
    inbox,                \* stream -> updates received and not dispatched
    arrivals,             \* stream -> number of updates received so far
    steps,                \* stream -> steps run for the update dispatched last
    processed,            \* stream -> updates in the order their processing
                          \*   began
    write_queue,          \* CSVLogger.write_queue
    stop_pc,              \* position of WhaleAnalyticsSystem.stop()
    errors,               \* the error log of process_order_book: the updates
                          \*   whose processing raised, as <<stream, update>>
    gave_up,              \* streams for which on_close logged that it gives up
    main_pc,              \* position of the main loop of the system
    tw,                   \* a TrackedWhale on its own, with every field that
                          \*   update reads or writes
    tw_now,               \* time.time() of the TrackedWhale on its own
    snapshot_history,     \* analyzer: the snapshots detect_spoofing looks at
    disappeared_orders,   \* what detect_spoofing returned
    csv_running,          \* CSVLogger.running
    csv_queue,            \* CSVLogger.write_queue in isolation: its entries
    unfinished_tasks,     \* CSVLogger.write_queue: Queue.unfinished_tasks
    csv_pc,               \* position of CSVLogger.stop()
    writer_pc,            \* position of the CSV writer thread
    thread_pc,            \* symbol -> position of its ingestion thread inside
                          \*   _create_new_whale on the shared tracker
    thread_tmp,           \* symbol -> the counter value the thread has loaded
    shared_total,         \* the shared tracker's total_whales_tracked
    shared_active         \* the shared tracker's active whales, as a set

trackerVars == <<now, ticks, whales, active_whales, whale_index, recent_whales,
                 whale_history, total_whales_tracked, ret, ghost>>

scoreVars == <<call, market_contexts, stats, score>>

bookVars == <<snapshot, order_history>>

streamVars == <<mgr_running, conns, connections, reconnect_attempts, inbox,
                arrivals, steps, processed, write_queue, stop_pc, errors,
                gave_up>>

updateVars == <<tw, tw_now>>

detectVars == <<snapshot_history, disappeared_orders>>

csvVars == <<csv_running, csv_queue, unfinished_tasks, csv_pc, writer_pc>>

sharedVars == <<thread_pc, thread_tmp, shared_total, shared_active>>

auxVars == <<updateVars, detectVars, csvVars, sharedVars>>

vars == <<trackerVars, scoreVars, bookVars, streamVars, main_pc, auxVars>>

\* --------------------------------------------------------------- helpers
NoId == <<>>        \* None

Abs(x) == IF x < 0 THEN 0 - x ELSE x

\* abs(x - cur) / cur > num / den, for cur > 0
RelDiffGt(x, cur, num, den) == Abs(x - cur) * den > num * cur

\* abs(x - cur) / cur < num / den, for cur > 0
RelDiffLt(x, cur, num, den) == Abs(x - cur) * den < num * cur

\* int(price)
IntPart(price) == price \div 1000

Range(s) == {s[i] : i \in 1..Len(s)}

\* ------------------------------------------------------------ TrackedWhale
\* TrackedWhale.update
WhaleUpdate(w, price, size) ==
    [w EXCEPT !.current_price = price,
              !.current_size = size,
              !.last_seen = now]

\* mark_disappeared closing the session at the clock, not at last_seen
MarkDisappeared_AtNow(w) ==
    [w EXCEPT !.disappearances = w.disappearances + 1,
              !.total_duration = w.total_duration + (now - w.first_seen)]

\* TrackedWhale.mark_disappeared
MarkDisappeared(w) ==
    [w EXCEPT !.disappearances = w.disappearances + 1,
              !.total_duration = w.total_duration + (w.last_seen - w.first_seen)]

\* ------------------------------------------------------------ WhaleTracker
\* whale_id = f"{symbol}_{side}_{int(price)}_{timestamp}"
MakeWhaleId(symbol, side, price) == <<symbol, side, IntPart(price), now>>

\* the TrackedWhale(...) constructed by _create_new_whale
NewWhale(symbol, side, price, size) ==
    [whale_id |-> MakeWhaleId(symbol, side, price),
     symbol |-> symbol,
     side |-> side,
     first_seen |-> now,
     last_seen |-> now,
     current_price |-> price,
     current_size |-> size,
     disappearances |-> 0,
     total_duration |-> 0]

\* the keys of the dict active_whales[symbol]
ActiveIds(symbol) ==
    IF symbol \in DOMAIN active_whales
    THEN {whales[i].whale_id : i \in Range(active_whales[symbol])}
    ELSE {}

\* active_whales[symbol].get(whale_id): the heap index, 0 for None
ActiveGet(symbol, whale_id) ==
    IF whale_id \in ActiveIds(symbol)
    THEN CHOOSE i \in Range(active_whales[symbol]) : whales[i].whale_id = whale_id
    ELSE 0

\* d[whale_id] = whale on a dict kept as the sequence of its values: an
\* existing key keeps its place and gets the new value, a new key goes last
DictSet(d, whale_id, idx) ==
    IF \E k \in 1..Len(d) : whales[d[k]].whale_id = whale_id
    THEN [k \in 1..Len(d) |-> IF whales[d[k]].whale_id = whale_id THEN idx ELSE d[k]]
    ELSE Append(d, idx)

\* identify_whale, "Initialize symbol dicts if needed"
InitActive(symbol) ==
    IF symbol \in DOMAIN active_whales THEN active_whales
    ELSE active_whales @@ (symbol :> <<>>)

InitRecent(symbol) ==
    IF symbol \in DOMAIN active_whales THEN recent_whales
    ELSE (symbol :> <<>>) @@ recent_whales

\* the initialisation run on every call, for a symbol known or not
InitIndex_Reset(symbol) ==
    (symbol :> [s \in Sides |-> {}]) @@ whale_index

InitIndex(symbol) ==
    IF symbol \in DOMAIN active_whales THEN whale_index
    ELSE (symbol :> [s \in Sides |-> {}]) @@ whale_index

\* ActiveMatch with the comparisons `>=` in place of `>`: a difference of
\* exactly the tolerance no longer matches
ActiveMatch_Strict(w, price, size) ==
    /\ w.current_price > 0
    /\ RelDiffLt(price, w.current_price, PriceTolNum, PriceTolDen)
    /\ w.current_size > 0
    /\ RelDiffLt(size, w.current_size, SizeTolNum, SizeTolDen)

\* the body of the loop of _match_active_whale: does this whale match?
ActiveMatch(w, price, size) ==
    /\ w.current_price > 0
    /\ ~RelDiffGt(price, w.current_price, PriceTolNum, PriceTolDen)
    /\ w.current_size > 0
    /\ ~RelDiffGt(size, w.current_size, SizeTolNum, SizeTolDen)

\* _match_active_whale: the ids it can return. It returns the first match in
\* the iteration order of the set whale_index[symbol][side], an order that
\* depends on the string hashes: any match can be the first. {} is None.
MatchActiveWhale(symbol, side, price, size) ==
    IF symbol \notin DOMAIN whale_index \/ side \notin DOMAIN whale_index[symbol]
    THEN {}
    ELSE {id \in whale_index[symbol][side] :
            /\ ActiveGet(symbol, id) # 0
            /\ ActiveMatch(whales[ActiveGet(symbol, id)], price, size)}

\* the cleaning that keeps a whale last seen exactly memory_seconds ago
StillRemembered_Inclusive(i) ==
    now - whales[i].last_seen <= memory_seconds * MsPerSecond

\* _match_recent_whale, "Clean old whales"
StillRemembered(i) == now - whales[i].last_seen < memory_seconds * MsPerSecond

CleanRecent(symbol) == SelectSeq(InitRecent(symbol)[symbol], StillRemembered)

\* RecentMatch without the comparison of the sides
RecentMatch_AnySide(w, side, price, size) ==
    /\ w.current_price > 0 /\ w.current_size > 0
    /\ RelDiffLt(price, w.current_price, LooseFactor * PriceTolNum, PriceTolDen)
    /\ RelDiffLt(size, w.current_size, LooseFactor * SizeTolNum, SizeTolDen)

\* RecentMatch without the doubling of the tolerances
RecentMatch_Tight(w, side, price, size) ==
    /\ w.side = side
    /\ w.current_price > 0 /\ w.current_size > 0
    /\ RelDiffLt(price, w.current_price, PriceTolNum, PriceTolDen)
    /\ RelDiffLt(size, w.current_size, SizeTolNum, SizeTolDen)

\* the body of the loop of _match_recent_whale
RecentMatch(w, side, price, size) ==
    /\ w.side = side
    /\ w.current_price > 0 /\ w.current_size > 0
    /\ RelDiffLt(price, w.current_price, LooseFactor * PriceTolNum, PriceTolDen)
    /\ RelDiffLt(size, w.current_size, LooseFactor * SizeTolNum, SizeTolDen)

\* _match_recent_whale: the position in the cleaned list of the first match,
\* 0 for None
MatchRecentWhale(symbol, side, price, size) ==
    LET rw == CleanRecent(symbol)
        hits == {k \in 1..Len(rw) : RecentMatch(whales[rw[k]], side, price, size)}
    IN IF hits = {} THEN 0 ELSE CHOOSE k \in hits : \A j \in hits : k <= j

\* _reactivate_whale: the position of the first whale of the list with this id
ReactivatePos(rw, whale_id) ==
    CHOOSE k \in 1..Len(rw) :
        /\ whales[rw[k]].whale_id = whale_id
        /\ \A j \in 1..(k - 1) : whales[rw[j]].whale_id # whale_id

\* _reactivate_whale, "Track that it disappeared and came back"
ReactivatedWhale(w) == [w EXCEPT !.disappearances = w.disappearances + 1]

\* ---------------------------------------------------- EnhancedSpoofDetector
\* Units of the scoring model: durations in milliseconds, liquidity_score
\* and size_variance_threshold in hundredths, recent_volatility in tenths of
\* a percent, distance thresholds in thousandths.

\* calibrations with a HIGH_VOL window that opens below the 5 s floor
calibrations_ShortFloor ==
    [HIGH_VOL |-> [min_duration |-> 3, max_duration |-> 90,
                   size_multiplier |-> 10, distance_threshold |-> 15,
                   flickering_threshold |-> 3, size_variance_threshold |-> 35],
     LOW_VOL  |-> [min_duration |-> 15, max_duration |-> 120,
                   size_multiplier |-> 100, distance_threshold |-> 5,
                   flickering_threshold |-> 3, size_variance_threshold |-> 30],
     DEFAULT  |-> [min_duration |-> 10, max_duration |-> 90,
                   size_multiplier |-> 50, distance_threshold |-> 10,
                   flickering_threshold |-> 4, size_variance_threshold |-> 35]]

\* self.calibrations
calibrations ==
    [HIGH_VOL |-> [min_duration |-> 5, max_duration |-> 90,
                   size_multiplier |-> 10, distance_threshold |-> 15,
                   flickering_threshold |-> 3, size_variance_threshold |-> 35],
     LOW_VOL  |-> [min_duration |-> 15, max_duration |-> 120,
                   size_multiplier |-> 100, distance_threshold |-> 5,
                   flickering_threshold |-> 3, size_variance_threshold |-> 30],
     DEFAULT  |-> [min_duration |-> 10, max_duration |-> 90,
                   size_multiplier |-> 50, distance_threshold |-> 10,
                   flickering_threshold |-> 4, size_variance_threshold |-> 35]]

HighVolSymbols == {"PEPEUSDT", "BONKUSDT", "WIFUSDT", "SHIBUSDT", "FLOKIUSDT"}

LowVolSymbols == {"BTCUSDT", "ETHUSDT", "USDTUSDT"}

get_calibration(symbol) ==
    IF symbol \in HighVolSymbols THEN calibrations.HIGH_VOL
    ELSE IF symbol \in LowVolSymbols THEN calibrations.LOW_VOL
    ELSE calibrations.DEFAULT

\* the context calculate_spoof_score builds when none is stored, with a
\* liquidity score below one half
DefaultContext_LowLiquidity ==
    [avg_order_size |-> 50000, avg_trade_size |-> 5000,
     recent_volatility |-> 20, bid_ask_spread_bps |-> 10,
     order_book_depth |-> 1000000, volume_24h |-> 10000000,
     recent_trade_frequency |-> 10, liquidity_score |-> 40]

\* the context calculate_spoof_score builds when none is stored
DefaultContext ==
    [avg_order_size |-> 50000, avg_trade_size |-> 5000,
     recent_volatility |-> 20, bid_ask_spread_bps |-> 10,
     order_book_depth |-> 1000000, volume_24h |-> 10000000,
     recent_trade_frequency |-> 10, liquidity_score |-> 50]

\* context = self.market_contexts.get(symbol), the defaults if there is none
ContextOf(self, symbol) ==
    IF symbol \in DOMAIN self.market_contexts
    THEN self.market_contexts[symbol]
    ELSE DefaultContext

\* 1. Duration Analysis: <<points, reason>>
DurationScore(calib, duration) ==
    IF calib.min_duration * MsPerSecond <= duration
          /\ duration <= calib.max_duration * MsPerSecond
    THEN IF 15 * MsPerSecond <= duration /\ duration <= 45 * MsPerSecond
         THEN <<25, "Perfect spoof duration">>
         ELSE <<20, "Suspicious duration">>
    ELSE IF duration < calib.min_duration * MsPerSecond
    THEN IF duration < 5 * MsPerSecond
         THEN <<0, "Too fast for spoofing">>
         ELSE <<10, "Quick order">>
    ELSE <<5, "Long duration">>

\* size_variance > calib['size_variance_threshold'], size_variance being
\* (max_size_seen - min_size_seen) / initial_size, 0 if initial_size <= 0
SizeVarianceOver(calib, whale) ==
    /\ whale.initial_size > 0
    /\ (whale.max_size_seen - whale.min_size_seen) * 100
          > calib.size_variance_threshold * whale.initial_size

\* 2. Size Pattern Analysis: size_multiplier is num / den
SizePatternScore(calib, context, whale) ==
    LET num == IF context.avg_order_size > 0 THEN whale.current_value_usd ELSE 1
        den == IF context.avg_order_size > 0 THEN context.avg_order_size ELSE 1
        base == IF num > calib.size_multiplier * den THEN <<20, <<"Huge order">> >>
                ELSE IF 2 * num > calib.size_multiplier * den
                THEN <<15, <<"Large order">> >>
                ELSE <<5, <<>> >>
    IN IF SizeVarianceOver(calib, whale)
       THEN <<base[1] + 5, Append(base[2], "Size manipulation")>>
       ELSE base

\* 3. Distance from Mid-Price: price_distance is abs(price - mid) / mid
DistanceScore(calib, whale, mid_price) ==
    IF mid_price > 0 /\ whale.current_price > 0
    THEN LET diff == Abs(whale.current_price - mid_price) * 1000 IN
         IF 5 * mid_price < diff /\ diff < 30 * mid_price
         THEN IF diff < calib.distance_threshold * mid_price
              THEN <<15, <<"Suspicious distance">> >>
              ELSE <<20, <<"Perfect spoof distance">> >>
         ELSE IF diff <= 5 * mid_price
         THEN <<5, <<"Very close to mid-price">> >>
         ELSE <<10, <<>> >>
    ELSE <<5, <<>> >>

\* TrackedWhale has no attribute trades_executed
HasTradesExecuted(whale) == "trades_executed" \in DOMAIN whale

\* behaviour points with the flickering test as an equality
BehaviorScore_Exact(calib, whale, duration) ==
    IF whale.disappearances = calib.flickering_threshold
    THEN <<20, <<"Flickering pattern">> >>
    ELSE IF whale.disappearances >= 2
    THEN <<10, <<"Multiple appearances">> >>
    ELSE <<0, <<>> >>

\* 4. Behavioral Analysis
BehaviorScore(calib, whale, duration) ==
    LET base == IF whale.disappearances >= calib.flickering_threshold
                THEN <<20, <<"Flickering pattern">> >>
                ELSE IF whale.disappearances >= 2
                THEN <<10, <<"Multiple appearances">> >>
                ELSE <<0, <<>> >>
    IN IF HasTradesExecuted(whale) /\ whale.trades_executed = 0
            /\ duration > 20 * MsPerSecond
       THEN <<base[1] + 5, Append(base[2], "Never executed despite duration")>>
       ELSE base

\* 5. Market Context
ContextScore(context) ==
    LET base == IF context.liquidity_score < 30
                THEN <<10, <<"Low liquidity environment">> >>
                ELSE IF context.liquidity_score < 50
                THEN <<5, <<"Medium liquidity">> >>
                ELSE <<0, <<>> >>
    IN IF context.recent_volatility > 50
       THEN <<base[1] + 5, Append(base[2], "High volatility")>>
       ELSE base

\* confidence level with the upper threshold at 50
ConfidenceLevel_High50(total_score) ==
    IF total_score >= 50 THEN "high"
    ELSE IF total_score >= 40 THEN "medium"
    ELSE IF total_score >= 25 THEN "low"
    ELSE "unlikely"

\* Determine confidence level
ConfidenceLevel(total_score) ==
    IF total_score >= 60 THEN "high"
    ELSE IF total_score >= 40 THEN "medium"
    ELSE IF total_score >= 25 THEN "low"
    ELSE "unlikely"

\* pattern type with the size test ahead of the flickering test
PatternType_SizeFirst(calib, whale, distance_score, duration_score) ==
    IF SizeVarianceOver(calib, whale) THEN "size_manipulation"
    ELSE IF whale.disappearances >= calib.flickering_threshold THEN "flickering"
    ELSE IF distance_score >= 15 /\ duration_score >= 20 THEN "classic"
    ELSE "unknown"

\* Determine pattern type
PatternType(calib, whale, distance_score, duration_score) ==
    IF whale.disappearances >= calib.flickering_threshold THEN "flickering"
    ELSE IF SizeVarianceOver(calib, whale) THEN "size_manipulation"
    ELSE IF distance_score >= 15 /\ duration_score >= 20 THEN "classic"
    ELSE "unknown"

\* the score with the number of scores computed so far added to the total
calculate_spoof_score_Counting(self, whale, symbol, duration, mid_price) ==
    LET calib == get_calibration(symbol)
        context == ContextOf(self, symbol)
        du == DurationScore(calib, duration)
        sz == SizePatternScore(calib, context, whale)
        di == DistanceScore(calib, whale, mid_price)
        be == BehaviorScore(calib, whale, duration)
        cx == ContextScore(context)
        total == du[1] + sz[1] + di[1] + be[1] + cx[1] + self.stats.total_analyzed
    IN [total_score |-> total,
        duration_score |-> du[1],
        size_pattern_score |-> sz[1],
        distance_score |-> di[1],
        behavior_score |-> be[1],
        context_score |-> cx[1],
        confidence_level |-> ConfidenceLevel(total),
        reasons |-> <<du[2]>> \o sz[2] \o di[2] \o be[2] \o cx[2],
        pattern_type |-> PatternType(calib, whale, di[1], du[1])]

\* calculate_spoof_score: the SpoofScore it returns; self is the detector
\* (its stored market contexts and its statistics counters)
calculate_spoof_score(self, whale, symbol, duration, mid_price) ==
    LET calib == get_calibration(symbol)
        context == ContextOf(self, symbol)
        du == DurationScore(calib, duration)
        sz == SizePatternScore(calib, context, whale)
        di == DistanceScore(calib, whale, mid_price)
        be == BehaviorScore(calib, whale, duration)
        cx == ContextScore(context)
        total == du[1] + sz[1] + di[1] + be[1] + cx[1]
    IN [total_score |-> total,
        duration_score |-> du[1],
        size_pattern_score |-> sz[1],
        distance_score |-> di[1],
        behavior_score |-> be[1],
        context_score |-> cx[1],
        confidence_level |-> ConfidenceLevel(total),
        reasons |-> <<du[2]>> \o sz[2] \o di[2] \o be[2] \o cx[2],
        pattern_type |-> PatternType(calib, whale, di[1], du[1])]

\* the statistics counters after a call that returned confidence level c
StatsAfter(st, c) ==
    [total_analyzed |-> st.total_analyzed + 1,
     high_confidence_spoofs |->
        st.high_confidence_spoofs + (IF c = "high" THEN 1 ELSE 0),
     medium_confidence_spoofs |->
        st.medium_confidence_spoofs + (IF c = "medium" THEN 1 ELSE 0),
     low_confidence_spoofs |->
        st.low_confidence_spoofs + (IF c = "low" THEN 1 ELSE 0)]

\* ------------------------------------- OrderBookSnapshot and market context
\* Prices and sizes of the raw updates are whole numbers chosen so that every
\* quotient taken below (spread_bps, mid_price, the mean order value, the
\* scores in hundredths) is a whole number of its unit.
BookSymbols == {"BTCUSDT", "PEPEUSDT"}

\* raw_data['b'] and raw_data['a'], best level first: <<bids, asks>>
RawBooks ==
    LET B1 == << [price |-> 1000, size |-> 200000] >>
        B2 == << [price |-> 1000, size |-> 300000], [price |-> 998, size |-> 300000] >>
        A1 == << [price |-> 1002, size |-> 200000] >>
        A2 == << [price |-> 1020, size |-> 200000] >>
        A3 == << [price |-> 998, size |-> 200000] >>
        A4 == << [price |-> 1002, size |-> 300000], [price |-> 1004, size |-> 300000] >>
        A5 == << [price |-> 998, size |-> 300000] >>
    IN {<< <<>>, <<>> >>, <<B1, <<>> >>, << <<>>, A1>>, <<B1, A1>>, <<B1, A2>>,
        <<B1, A3>>, <<B2, A4>>, <<B2, A5>>}

NoSnapshot == <<>>

RECURSIVE SumOf(_, _)
\* sum(f(level) for level in levels)
SumOf(levels, field) ==
    IF levels = <<>> THEN 0
    ELSE (IF field = "size" THEN Head(levels).size
          ELSE IF field = "value_usd" THEN Head(levels).price * Head(levels).size
          ELSE Head(levels).value_usd)
         + SumOf(Tail(levels), field)

\* OrderBookSnapshot.from_raw_data: the fields read further on
from_raw_data(bids, asks, symbol) ==
    LET best_bid == IF bids # <<>> THEN bids[1].price ELSE 0
        best_ask == IF asks # <<>> THEN asks[1].price ELSE 0
        spread == best_ask - best_bid
    IN [symbol |-> symbol,
        bids |-> bids,
        asks |-> asks,
        best_bid |-> best_bid,
        best_ask |-> best_ask,
        spread |-> spread,
        spread_bps |-> IF best_bid > 0 THEN (spread * 10000) \div best_bid ELSE 0,
        mid_price |-> IF best_bid > 0 /\ best_ask > 0
                      THEN (best_bid + best_ask) \div 2 ELSE 0,
        bid_volume_total |-> SumOf(bids, "size"),
        ask_volume_total |-> SumOf(asks, "size")]

OrderHistoryCapacity == 1000     \* deque(maxlen=1000)
DepthCap == 1000000              \* min(..., 1000000) / 1000000
WarmOrders == 10                 \* len(self.order_history[symbol]) > 10
WarmPrices == 50                 \* len(self.order_history[symbol]) > 50

\* the first n elements of a list: s[:n]
Take(s, n) == SubSeq(s, 1, IF Len(s) < n THEN Len(s) ELSE n)

\* self.order_history[symbol] once update_market_context has created it
HistoryOf(symbol) ==
    IF symbol \in DOMAIN order_history THEN order_history[symbol] ELSE <<>>

\* avg_order of update_market_context
AvgOrder(symbol, snap) ==
    IF Len(HistoryOf(symbol)) > WarmOrders
    THEN SumOf(HistoryOf(symbol), "stored") \div Len(HistoryOf(symbol))
    ELSE LET all_orders == Take(snap.bids, 20) \o Take(snap.asks, 20) IN
         IF all_orders # <<>>
         THEN SumOf(all_orders, "value_usd") \div Len(all_orders)
         ELSE 10000

\* liquidity_score of update_market_context, in hundredths
LiquidityScore(snap) ==
    LET depth == snap.bid_volume_total + snap.ask_volume_total
        depth_score == ((IF depth < DepthCap THEN depth ELSE DepthCap) * 100) \div DepthCap
        spread_score == IF 100 - snap.spread_bps > 0 THEN 100 - snap.spread_bps ELSE 0
    IN (depth_score + spread_score) \div 2

\* the values the volatility can take once the price sample is warm (the
\* standard deviation over the mean of the sampled prices, in tenths of a
\* percent)
WarmVolatilities == {0, 20, 60}

\* the MarketContext update_market_context stores, given the volatility
ContextFrom(symbol, snap, volatility) ==
    [avg_order_size |-> AvgOrder(symbol, snap),
     avg_trade_size |-> AvgOrder(symbol, snap) \div 10,
     recent_volatility |-> volatility,
     bid_ask_spread_bps |-> snap.spread_bps,
     order_book_depth |-> snap.bid_volume_total + snap.ask_volume_total,
     volume_24h |-> 0,
     recent_trade_frequency |-> 1,
     liquidity_score |-> LiquidityScore(snap)]

\* ------------------------------------------------------- scoring inputs
\* the whales, symbols, durations, mid prices and stored contexts that
\* calculate_spoof_score is applied to
ScoreSymbols == {"PEPEUSDT", "BTCUSDT", "SOLUSDT"}   \* one per profile
OtherSymbol == "XRPUSDT"
Durations == {0, 4999, 5000, 12000, 15000, 45000, 100000, 130000}
OrderValues == {100000, 3000000, 6000000}          \* current_value_usd
\* <<initial_size, max_size_seen, min_size_seen>>
SizeHistories == {<<10, 10, 10>>, <<10, 13, 10>>, <<10, 14, 10>>, <<0, 14, 10>>}
\* <<current_price, mid_price>>
PricePairs ==
    {<<1000, 0>>} \cup {<<p, 1000>> : p \in {1000, 1005, 1008, 1012, 1030}}

\* stored market contexts: illiquid and volatile, of medium liquidity with
\* small orders, liquid with no order size known
Contexts ==
    {[avg_order_size |-> 50000, avg_trade_size |-> 5000,
      recent_volatility |-> 60, bid_ask_spread_bps |-> 70,
      order_book_depth |-> 100000, volume_24h |-> 0,
      recent_trade_frequency |-> 1, liquidity_score |-> 20],
     [avg_order_size |-> 10000, avg_trade_size |-> 1000,
      recent_volatility |-> 20, bid_ask_spread_bps |-> 60,
      order_book_depth |-> 400000, volume_24h |-> 0,
      recent_trade_frequency |-> 1, liquidity_score |-> 40],
     [avg_order_size |-> 0, avg_trade_size |-> 0,
      recent_volatility |-> 20, bid_ask_spread_bps |-> 40,
      order_book_depth |-> 1000000, volume_24h |-> 0,
      recent_trade_frequency |-> 1, liquidity_score |-> 80]}

\* self.market_contexts: empty, a context for the symbol, or a context for
\* another symbol only
ContextStores(symbol) ==
    {<<>>} \cup {(symbol :> c) : c \in Contexts}
           \cup {(OtherSymbol :> c) : c \in {x \in Contexts : x.liquidity_score < 30}}

\* the arguments of calculate_spoof_score; whale carries the fields of a
\* TrackedWhale that the scoring reads
ScoreCalls ==
    {[whale |-> [current_value_usd |-> v, current_price |-> pp[1],
                 initial_size |-> sh[1], max_size_seen |-> sh[2],
                 min_size_seen |-> sh[3], disappearances |-> n],
      symbol |-> s, duration |-> d, mid_price |-> pp[2]] :
        v \in OrderValues, pp \in PricePairs, sh \in SizeHistories,
        n \in 0..MaxDisappearances, s \in ScoreSymbols, d \in Durations}

NoCall == <<>>      \* no call of calculate_spoof_score is modelled
NoScore == <<>>     \* nothing returned yet

ZeroStats ==
    [total_analyzed |-> 0, high_confidence_spoofs |-> 0,
     medium_confidence_spoofs |-> 0, low_confidence_spoofs |-> 0]


RemoveAt(s, k) == SubSeq(s, 1, k - 1) \o SubSeq(s, k + 1, Len(s))

\* ------------------------------------- BinanceWebSocketManager and the system
max_reconnect_attempts == 10

StreamOrder == <<"btcusdt@depth20@100ms", "ethusdt@depth20@100ms">>

Streams == {StreamOrder[i] : i \in 1..Len(StreamOrder)}

\* the attributes of a TrackedWhale (the dataclass fields)
TrackedWhaleFields ==
    {"whale_id", "symbol", "side", "initial_price", "initial_size",
     "initial_value_usd", "first_seen", "last_seen", "current_price",
     "current_size", "current_value_usd", "size_changes", "price_moves",
     "disappearances", "total_duration", "max_size_seen", "min_size_seen",
     "mid_price_on_appearance", "percentage_of_book", "level"}

\* hasattr(whale, name) for a TrackedWhale
HasAttr(name) == name \in TrackedWhaleFields

\* positions of a connection's thread inside process_order_book
PipelineStates == {"snapshot", "detect", "track", "sinks"}

\* the steps that scoring one disappeared whale runs: analyze_whale_lifecycle
\* updates the market context only for a whale that carries a snapshot
ScoringSteps ==
    IF HasAttr("snapshot") THEN <<"context", "score">> ELSE <<"score">>

\* is_connected(stream_name)
is_connected(stream) == stream \in DOMAIN connections

\* the message of the receive buffer that the dispatch loop hands over: the
\* newest one
NextIndex_Newest(q) == Len(q)

\* the message of the receive buffer that the dispatch loop hands over
NextIndex(q) == 1

\* where an exception raised inside the handlers leaves the thread: dead
ExceptionOutcome_Uncaught == "closed"

\* where an exception raised inside process_order_book leaves the thread:
\* caught and logged, back in the dispatch loop
ExceptionOutcome == "open"

\* on_open counting the connection as on_close does
AttemptsOnOpen_Counted(n) == n + 1

\* on_open: self.reconnect_attempts[stream_name] = 0
AttemptsOnOpen(n) == 0

\* Queue.put on an unbounded queue
Put(q, event) == Append(q, event)

\* the connection object of a stream
ConnOf(stream) == conns[connections[stream]]

\* the streams have no connection, nothing runs
StreamIdle ==
    /\ mgr_running = FALSE
    /\ conns = <<>>
    /\ connections = <<>>
    /\ reconnect_attempts = [s \in Streams |-> 0]
    /\ inbox = [s \in Streams |-> <<>>]
    /\ arrivals = [s \in Streams |-> 0]
    /\ steps = [s \in Streams |-> <<>>]
    /\ processed = [s \in Streams |-> <<>>]
    /\ write_queue = <<>>
    /\ stop_pc = "none"
    /\ errors = {}
    /\ gave_up = {}

\* ------------------------------------------ TrackedWhale.update on its own
\* UpdateSpec applies update to a whale as _create_new_whale builds it, with
\* the fields that update reads or writes. The thresholds are compared
\* exactly, by cross-multiplication.
UpdatePrices == {998999, 1000000, 1001000, 1001001}

UpdateSizes == {94, 100, 105, 106}

\* the TrackedWhale(...) of _create_new_whale, seen at the clock
CreatedWhale(price, size) ==
    [current_price |-> price,
     current_size |-> size,
     current_value_usd |-> price * size,
     last_seen |-> tw_now,
     size_changes |-> <<>>,
     price_moves |-> <<>>,
     max_size_seen |-> size,
     min_size_seen |-> size]

\* size_change_pct >= 5.0
SizeSignificant_AtLeast(w, size) ==
    IF w.current_size > 0
    THEN Abs(w.current_size - size) * 100 >= 5 * w.current_size
    ELSE TRUE

\* size_change_pct > 5.0, the percentage being 100 for a current size of 0
SizeSignificant(w, size) ==
    IF w.current_size > 0
    THEN Abs(w.current_size - size) * 100 > 5 * w.current_size
    ELSE TRUE

\* price_change_pct > 0.1, the percentage being 100 for a current price of 0
PriceSignificant(w, price) ==
    IF w.current_price > 0
    THEN Abs(w.current_price - price) * 1000 > w.current_price
    ELSE TRUE

Max2(a, b) == IF a >= b THEN a ELSE b

Min2(a, b) == IF a <= b THEN a ELSE b

\* TrackedWhale.update(price, size, value_usd) at the time t
FullUpdate(w, price, size, value_usd, t) ==
    [current_price |-> price,
     current_size |-> size,
     current_value_usd |-> value_usd,
     last_seen |-> t,
     size_changes |-> IF SizeSignificant(w, size)
                      THEN Append(w.size_changes, <<t, size>>)
                      ELSE w.size_changes,
     price_moves |-> IF PriceSignificant(w, price)
                     THEN Append(w.price_moves, <<t, price>>)
                     ELSE w.price_moves,
     max_size_seen |-> Max2(w.max_size_seen, size),
     min_size_seen |-> Min2(w.min_size_seen, size)]

\* no TrackedWhale on its own
NoWhale == <<>>

UpdateIdle ==
    /\ tw = NoWhale
    /\ tw_now = 0

\* detect_spoofing has not returned
NoResult == <<"none">>

DetectIdle ==
    /\ snapshot_history = <<>>
    /\ disappeared_orders = NoResult

\* CSVLogger.__init__: the queue is empty and the writer thread runs
CsvIdle ==
    /\ csv_running = TRUE
    /\ csv_queue = <<>>
    /\ unfinished_tasks = 0
    /\ csv_pc = "idle"
    /\ writer_pc = "loop"

\* the ingestion threads are outside the shared tracker
SharedIdle ==
    /\ thread_pc = [s \in Symbols |-> "idle"]
    /\ thread_tmp = [s \in Symbols |-> 0]
    /\ shared_total = 0
    /\ shared_active = {}

AuxIdle == UpdateIdle /\ DetectIdle /\ CsvIdle /\ SharedIdle

TrackerInit ==
    /\ now = 0
    /\ ticks = 0
    /\ whales = <<>>
    /\ active_whales = <<>>
    /\ whale_index = <<>>
    /\ recent_whales = <<>>
    /\ whale_history = <<>>
    /\ total_whales_tracked = 0
    /\ ret = NoId
    /\ ghost = <<>>

\* the tracker with an idle detector
Init ==
    /\ TrackerInit
    /\ call = NoCall
    /\ market_contexts = <<>>
    /\ stats = ZeroStats
    /\ score = NoScore
    /\ snapshot = NoSnapshot
    /\ order_history = <<>>
    /\ StreamIdle
    /\ main_pc = "idle"
    /\ AuxIdle

\* time passes between two calls
Tick ==
    /\ ticks < MaxTicks
    /\ \E d \in TickSteps : now' = now + d
    /\ ticks' = ticks + 1
    /\ UNCHANGED <<scoreVars, bookVars, streamVars, main_pc, auxVars>>
    /\ UNCHANGED <<whales, active_whales, whale_index, recent_whales,
                   whale_history, total_whales_tracked, ret, ghost>>

\* identify_whale, an active whale matches: update it, return its id
IdentifyActiveOn(lv) ==
      LET symbol == lv[1] side == lv[2] price == lv[3] size == lv[4] IN
      \E id \in MatchActiveWhale(symbol, side, price, size) :
        LET i == ActiveGet(symbol, id) IN
        /\ whales' = [whales EXCEPT ![i] = WhaleUpdate(whales[i], price, size)]
        /\ ret' = id
        /\ UNCHANGED <<scoreVars, bookVars, streamVars, main_pc, auxVars>>
        /\ UNCHANGED <<now, ticks, active_whales, whale_index, recent_whales,
                       whale_history, total_whales_tracked, ghost>>

IdentifyActive == \E lv \in Levels : IdentifyActiveOn(lv)

\* identify_whale, no active whale matches and a recent one does: reactivate
\* it, update it, return its id
IdentifyReactivateOn(lv) ==
      LET symbol == lv[1] side == lv[2] price == lv[3] size == lv[4] IN
        LET rw == CleanRecent(symbol)
            m == MatchRecentWhale(symbol, side, price, size)
        IN
        /\ MatchActiveWhale(symbol, side, price, size) = {}
        /\ m # 0
        /\ LET id == whales[rw[m]].whale_id
               k == ReactivatePos(rw, id)
               i == rw[k]
           IN
           /\ recent_whales' = [recent_whales EXCEPT ![symbol] = RemoveAt(rw, k)]
           /\ active_whales' =
                 [active_whales EXCEPT ![symbol] = DictSet(@, id, i)]
           /\ whales' = [whales EXCEPT ![i] =
                 WhaleUpdate(ReactivatedWhale(whales[i]), price, size)]
           /\ ghost' = [ghost EXCEPT ![i] =
                 [@ EXCEPT !.reactivations = @ + 1, !.active_since = now]]
           /\ ret' = id
        /\ UNCHANGED <<scoreVars, bookVars, streamVars, main_pc, auxVars>>
        /\ UNCHANGED <<now, ticks, whale_index, whale_history, total_whales_tracked>>

IdentifyReactivate == \E lv \in Levels : IdentifyReactivateOn(lv)

\* identify_whale, nothing matches: _create_new_whale
IdentifyCreateOn(lv) ==
      LET symbol == lv[1] side == lv[2] price == lv[3] size == lv[4] IN
        LET id == MakeWhaleId(symbol, side, price)
            i == Len(whales) + 1
            idx == InitIndex(symbol)
        IN
        /\ Len(whales) < MaxWhales
        /\ MatchActiveWhale(symbol, side, price, size) = {}
        /\ MatchRecentWhale(symbol, side, price, size) = 0
        /\ whales' = Append(whales, NewWhale(symbol, side, price, size))
        /\ recent_whales' =
              [InitRecent(symbol) EXCEPT ![symbol] = CleanRecent(symbol)]
        /\ active_whales' =
              [InitActive(symbol) EXCEPT ![symbol] = DictSet(@, id, i)]
        /\ whale_index' =
              IF side \in DOMAIN idx[symbol]
              THEN [idx EXCEPT ![symbol][side] = @ \cup {id}]
              ELSE idx
        /\ total_whales_tracked' = total_whales_tracked + 1
        /\ ghost' = Append(ghost, [reactivations |-> 0, closed |-> 0,
                                   active_since |-> now, active_sum |-> 0])
        /\ ret' = id
        /\ UNCHANGED <<scoreVars, bookVars, streamVars, main_pc, auxVars>>
        /\ UNCHANGED <<now, ticks, whale_history>>

IdentifyCreate == \E lv \in Levels : IdentifyCreateOn(lv)

\* process_snapshot_whales(symbol, current_whale_ids) on a symbol it knows
ProcessSnapshotOn(symbol, current_whale_ids) ==
        LET aw == active_whales[symbol]
            Gone(i) == whales[i].whale_id \notin current_whale_ids
            Stays(i) == ~Gone(i)
            disappeared == SelectSeq(aw, Gone)
        IN
        /\ Len(whale_history) + Len(disappeared) <= MaxHistory
        /\ whales' = [i \in 1..Len(whales) |->
                        IF i \in Range(disappeared)
                        THEN MarkDisappeared(whales[i]) ELSE whales[i]]
        /\ ghost' = [i \in 1..Len(ghost) |->
                        IF i \in Range(disappeared)
                        THEN [ghost[i] EXCEPT
                                !.closed = @ + 1,
                                !.active_sum =
                                  @ + (whales[i].last_seen - ghost[i].active_since)]
                        ELSE ghost[i]]
        /\ active_whales' =
              [active_whales EXCEPT ![symbol] = SelectSeq(aw, Stays)]
        /\ recent_whales' =
              [recent_whales EXCEPT ![symbol] = @ \o disappeared]
        /\ whale_history' = whale_history \o disappeared
        /\ ret' = NoId
        /\ UNCHANGED <<scoreVars, bookVars, streamVars, main_pc, auxVars>>
        /\ UNCHANGED <<now, ticks, whale_index, total_whales_tracked>>

\* the ids a snapshot can leave out are those of the symbol's active whales
ProcessSnapshot ==
    \E symbol \in DOMAIN active_whales :
      \E current_whale_ids \in SUBSET ActiveIds(symbol) :
        ProcessSnapshotOn(symbol, current_whale_ids)

\* process_snapshot_whales on a symbol never identified: returns at once
ProcessUnknown ==
    \E symbol \in Symbols \ DOMAIN active_whales :
        /\ ret' = NoId
        /\ UNCHANGED <<scoreVars, bookVars, streamVars, main_pc, auxVars>>
        /\ UNCHANGED <<now, ticks, whales, active_whales, whale_index,
                       recent_whales, whale_history, total_whales_tracked, ghost>>

Next ==
    \/ Tick
    \/ IdentifyActive
    \/ IdentifyReactivate
    \/ IdentifyCreate
    \/ ProcessSnapshot
    \/ ProcessUnknown

Spec == Init /\ [][Next]_vars

\* ------------------------------------------------- the scoring on its own
\* EnhancedSpoofDetector.__init__, with the arguments of the calls to come
\* and the market contexts stored before them
ScoreInit ==
    /\ TrackerInit
    /\ call \in ScoreCalls
    /\ market_contexts \in ContextStores(call.symbol)
    /\ stats = ZeroStats
    /\ score = NoScore
    /\ snapshot = NoSnapshot
    /\ order_history = <<>>
    /\ StreamIdle
    /\ main_pc = "idle"
    /\ AuxIdle

\* the detector object
Detector == [market_contexts |-> market_contexts, stats |-> stats]

\* one call calculate_spoof_score(whale, symbol, duration, mid_price)
ScoreCall ==
    /\ call # NoCall
    /\ stats.total_analyzed < MaxCalls
    /\ LET r == calculate_spoof_score(Detector, call.whale, call.symbol,
                                      call.duration, call.mid_price)
       IN /\ score' = r
          /\ stats' = StatsAfter(stats, r.confidence_level)
    /\ UNCHANGED <<call, market_contexts>>
    /\ UNCHANGED <<trackerVars, bookVars, streamVars, main_pc, auxVars>>

ScoreNext == ScoreCall

ScoreSpec == ScoreInit /\ [][ScoreNext]_vars

\* ------------------------------------- snapshots and the market context
\* no snapshot built, no context stored
ContextInit ==
    /\ TrackerInit
    /\ call = NoCall
    /\ stats = ZeroStats
    /\ score = NoScore
    /\ market_contexts = <<>>
    /\ snapshot = NoSnapshot
    /\ order_history = <<>>
    /\ StreamIdle
    /\ main_pc = "idle"
    /\ AuxIdle

\* OrderBookSnapshot.from_raw_data on a raw update
BuildSnapshot ==
    /\ \E symbol \in BookSymbols : \E book \in RawBooks :
          snapshot' = from_raw_data(book[1], book[2], symbol)
    /\ UNCHANGED <<trackerVars, scoreVars, order_history, streamVars, main_pc,
                   auxVars>>

\* update_market_context(symbol, snapshot)
UpdateMarketContext ==
    /\ snapshot # NoSnapshot
    /\ LET symbol == snapshot.symbol IN
       /\ order_history' =
             IF symbol \in DOMAIN order_history THEN order_history
             ELSE (symbol :> <<>>) @@ order_history
       /\ \E volatility \in (IF Len(HistoryOf(symbol)) > WarmPrices
                             THEN WarmVolatilities ELSE {20}) :
             market_contexts' =
                (symbol :> ContextFrom(symbol, snapshot, volatility)) @@ market_contexts
    /\ UNCHANGED <<trackerVars, call, stats, score, snapshot, streamVars,
                   main_pc, auxVars>>

ContextNext == BuildSnapshot \/ UpdateMarketContext

ContextSpec == ContextInit /\ [][ContextNext]_vars

\* ------------------------------------------------------------ StreamSpec
\* The websocket manager, the per-update processing of whale_monitor and the
\* CSV write queue, from the constructed system on.
StreamInit ==
    /\ TrackerInit
    /\ call = NoCall
    /\ market_contexts = <<>>
    /\ stats = ZeroStats
    /\ score = NoScore
    /\ snapshot = NoSnapshot
    /\ order_history = <<>>
    /\ StreamIdle
    /\ main_pc = "idle"
    /\ AuxIdle

\* _create_connection: a WebSocketApp and a thread for it that is not started
NewConnection(stream) ==
    [stream |-> stream, state |-> "created", close_requested |-> FALSE]

\* WhaleAnalyticsSystem.start: subscribe every stream, then ws_manager.start()
\* sets running and starts every thread of self.threads
Start ==
    /\ stop_pc = "none"
    /\ ~mgr_running
    /\ conns = <<>>
    /\ mgr_running' = TRUE
    /\ conns' = [i \in 1..Len(StreamOrder) |->
                    [NewConnection(StreamOrder[i]) EXCEPT !.state = "connecting"]]
    /\ connections' = [s \in Streams |->
                          CHOOSE i \in 1..Len(StreamOrder) : StreamOrder[i] = s]
    /\ UNCHANGED <<reconnect_attempts, inbox, arrivals, steps, processed,
                   write_queue, stop_pc, errors, gave_up>>
    /\ UNCHANGED <<trackerVars, scoreVars, bookVars, main_pc, auxVars>>

\* on_open: the connection is established, the attempts are reset
OnOpen ==
    /\ \E c \in DOMAIN conns :
          /\ conns[c].state = "connecting"
          /\ ~conns[c].close_requested
          /\ conns' = [conns EXCEPT ![c].state = "open"]
          /\ reconnect_attempts' =
                [reconnect_attempts EXCEPT ![conns[c].stream] = AttemptsOnOpen(@)]
    /\ UNCHANGED <<mgr_running, connections, inbox, arrivals, steps, processed,
                   write_queue, stop_pc, errors, gave_up>>
    /\ UNCHANGED <<trackerVars, scoreVars, bookVars, main_pc, auxVars>>

\* an update of the stream reaches the socket of its established connection
Arrive ==
    /\ \E c \in DOMAIN conns :
          LET s == conns[c].stream IN
          /\ conns[c].state \in {"open"} \union PipelineStates
          /\ ~conns[c].close_requested
          /\ arrivals[s] < MaxUpdates
          /\ arrivals' = [arrivals EXCEPT ![s] = @ + 1]
          /\ inbox' = [inbox EXCEPT ![s] = Append(@, arrivals[s] + 1)]
    /\ UNCHANGED <<mgr_running, conns, connections, reconnect_attempts, steps,
                   processed, write_queue, stop_pc, errors, gave_up>>
    /\ UNCHANGED <<trackerVars, scoreVars, bookVars, main_pc, auxVars>>

\* run_forever hands one message to on_message, which calls the callback:
\* process_order_book begins
Dispatch ==
    /\ \E c \in DOMAIN conns :
          LET s == conns[c].stream
              i == NextIndex(inbox[s]) IN
          /\ conns[c].state = "open"
          /\ ~conns[c].close_requested
          /\ inbox[s] # <<>>
          /\ conns' = [conns EXCEPT ![c].state = "snapshot"]
          /\ inbox' = [inbox EXCEPT ![s] = RemoveAt(@, i)]
          /\ processed' = [processed EXCEPT ![s] = Append(@, inbox[s][i])]
          /\ steps' = [steps EXCEPT ![s] = <<>>]
    /\ UNCHANGED <<mgr_running, connections, reconnect_attempts, arrivals,
                   write_queue, stop_pc, errors, gave_up>>
    /\ UNCHANGED <<trackerVars, scoreVars, bookVars, main_pc, auxVars>>

\* process_order_book: OrderBookSnapshot.from_raw_data
StepSnapshot ==
    /\ \E c \in DOMAIN conns :
          /\ conns[c].state = "snapshot"
          /\ conns' = [conns EXCEPT ![c].state = "detect"]
          /\ steps' = [steps EXCEPT ![conns[c].stream] = Append(@, "snapshot")]
    /\ UNCHANGED <<mgr_running, connections, reconnect_attempts, inbox,
                   arrivals, processed, write_queue, stop_pc, errors, gave_up>>
    /\ UNCHANGED <<trackerVars, scoreVars, bookVars, main_pc, auxVars>>

\* analyze_snapshot: _detect_whale_orders calls identify_whale for the
\* qualifying levels of both sides
StepIdentify ==
    /\ \E c \in DOMAIN conns :
          /\ conns[c].state = "detect"
          /\ conns' = [conns EXCEPT ![c].state = "track"]
          /\ steps' = [steps EXCEPT ![conns[c].stream] = Append(@, "identify")]
    /\ UNCHANGED <<mgr_running, connections, reconnect_attempts, inbox,
                   arrivals, processed, write_queue, stop_pc, errors, gave_up>>
    /\ UNCHANGED <<trackerVars, scoreVars, bookVars, main_pc, auxVars>>

\* analyze_snapshot: process_snapshot_whales with the ids of this snapshot,
\* which scores the whales that disappeared
StepTrack ==
    /\ \E c \in DOMAIN conns : \E disappeared \in BOOLEAN :
          /\ conns[c].state = "track"
          /\ conns' = [conns EXCEPT ![c].state = "sinks"]
          /\ steps' = [steps EXCEPT ![conns[c].stream] =
                          Append(@, "process")
                              \o (IF disappeared THEN ScoringSteps ELSE <<>>)]
    /\ UNCHANGED <<mgr_running, connections, reconnect_attempts, inbox,
                   arrivals, processed, write_queue, stop_pc, errors, gave_up>>
    /\ UNCHANGED <<trackerVars, scoreVars, bookVars, main_pc, auxVars>>

\* the rest of analyze_snapshot and of process_order_book: the CSV logger
\* queues the snapshot's events; process_order_book returns
StepSinks ==
    /\ \E c \in DOMAIN conns :
          /\ conns[c].state = "sinks"
          /\ conns' = [conns EXCEPT ![c].state = "open"]
          /\ steps' = [steps EXCEPT ![conns[c].stream] = Append(@, "sinks")]
          /\ write_queue' = Put(write_queue, conns[c].stream)
    /\ UNCHANGED <<mgr_running, connections, reconnect_attempts, inbox,
                   arrivals, processed, stop_pc, errors, gave_up>>
    /\ UNCHANGED <<trackerVars, scoreVars, bookVars, main_pc, auxVars>>

\* a step of process_order_book raises
Raise ==
    /\ \E c \in DOMAIN conns :
          LET s == conns[c].stream IN
          /\ conns[c].state \in PipelineStates
          /\ Cardinality(errors) < MaxErrors
          /\ conns' = [conns EXCEPT ![c].state = ExceptionOutcome]
          /\ errors' = errors \union {<<s, processed[s][Len(processed[s])]>>}
    /\ UNCHANGED <<mgr_running, connections, reconnect_attempts, inbox,
                   arrivals, steps, processed, write_queue, stop_pc, gave_up>>
    /\ UNCHANGED <<trackerVars, scoreVars, bookVars, main_pc, auxVars>>

\* the CSV writer thread takes one entry
Consume ==
    /\ write_queue # <<>>
    /\ write_queue' = Tail(write_queue)
    /\ UNCHANGED <<mgr_running, conns, connections, reconnect_attempts, inbox,
                   arrivals, steps, processed, stop_pc, errors, gave_up>>
    /\ UNCHANGED <<trackerVars, scoreVars, bookVars, main_pc, auxVars>>

\* on_close, entered from the dispatch loop when the connection is lost or
\* was closed: either counts an attempt and sleeps, or gives up; what the
\* socket had received and not handed over is lost with it
OnClose ==
    /\ \E c \in DOMAIN conns :
          LET s == conns[c].stream IN
          /\ conns[c].state \in {"connecting", "open"}
          /\ IF mgr_running /\ reconnect_attempts[s] < max_reconnect_attempts
             THEN /\ reconnect_attempts' =
                        [reconnect_attempts EXCEPT ![s] = @ + 1]
                  /\ conns' = [conns EXCEPT ![c].state = "sleeping"]
                  /\ UNCHANGED gave_up
             ELSE /\ conns' = [conns EXCEPT ![c].state = "closed"]
                  /\ gave_up' = gave_up \union {s}
                  /\ UNCHANGED reconnect_attempts
          /\ inbox' = [inbox EXCEPT ![s] = <<>>]
    /\ UNCHANGED <<mgr_running, connections, arrivals, steps, processed,
                   write_queue, stop_pc, errors>>
    /\ UNCHANGED <<trackerVars, scoreVars, bookVars, main_pc, auxVars>>

\* on_close after the sleep: _create_connection replaces the stream's entries
\* of self.connections and self.threads; the old thread ends
Reconnect ==
    /\ \E c \in DOMAIN conns :
          /\ conns[c].state = "sleeping"
          /\ conns' = Append([conns EXCEPT ![c].state = "closed"],
                             NewConnection(conns[c].stream))
          /\ connections' =
                [connections EXCEPT ![conns[c].stream] = Len(conns) + 1]
    /\ UNCHANGED <<mgr_running, reconnect_attempts, inbox, arrivals, steps,
                   processed, write_queue, stop_pc, errors, gave_up>>
    /\ UNCHANGED <<trackerVars, scoreVars, bookVars, main_pc, auxVars>>

\* stop(): the running flags are cleared
StopFlag ==
    /\ stop_pc = "none"
    /\ mgr_running
    /\ stop_pc' = "flagged"
    /\ mgr_running' = FALSE
    /\ UNCHANGED <<conns, connections, reconnect_attempts, inbox, arrivals,
                   steps, processed, write_queue, errors, gave_up>>
    /\ UNCHANGED <<trackerVars, scoreVars, bookVars, main_pc, auxVars>>

\* ws_manager.stop(): ws.close() on every entry of self.connections
StopClose ==
    /\ stop_pc = "flagged"
    /\ stop_pc' = "closing"
    /\ conns' = [c \in DOMAIN conns |->
                    IF connections[conns[c].stream] = c
                    THEN [conns[c] EXCEPT !.close_requested = TRUE]
                    ELSE conns[c]]
    /\ UNCHANGED <<mgr_running, connections, reconnect_attempts, inbox,
                   arrivals, steps, processed, write_queue, errors, gave_up>>
    /\ UNCHANGED <<trackerVars, scoreVars, bookVars, main_pc, auxVars>>

\* stop(): the alert manager is stopped and the InfluxDB client closed
StopRelease ==
    /\ stop_pc = "closing"
    /\ stop_pc' = "released"
    /\ UNCHANGED <<mgr_running, conns, connections, reconnect_attempts, inbox,
                   arrivals, steps, processed, write_queue, errors, gave_up>>
    /\ UNCHANGED <<trackerVars, scoreVars, bookVars, main_pc, auxVars>>

\* the main loop begins a periodic task that reads the analyzer:
\* _print_stats (get_market_pressure) or detect_spoofing. It takes no lock.
ReportBegin ==
    /\ main_pc = "idle"
    /\ mgr_running
    /\ main_pc' = "reading"
    /\ UNCHANGED <<trackerVars, scoreVars, bookVars, streamVars, auxVars>>

\* the read returns
ReportEnd ==
    /\ main_pc = "reading"
    /\ main_pc' = "idle"
    /\ UNCHANGED <<trackerVars, scoreVars, bookVars, streamVars, auxVars>>

StreamNext ==
    \/ Start
    \/ OnOpen
    \/ Arrive
    \/ Dispatch
    \/ StepSnapshot
    \/ StepIdentify
    \/ StepTrack
    \/ StepSinks
    \/ Raise
    \/ Consume
    \/ OnClose
    \/ Reconnect
    \/ StopFlag
    \/ StopClose
    \/ StopRelease
    \/ ReportBegin
    \/ ReportEnd

StreamSpec == StreamInit /\ [][StreamNext]_vars

\* ------------------------------------------------------------ UpdateSpec
UpdateInit ==
    /\ TrackerInit
    /\ call = NoCall
    /\ market_contexts = <<>>
    /\ stats = ZeroStats
    /\ score = NoScore
    /\ snapshot = NoSnapshot
    /\ order_history = <<>>
    /\ StreamIdle
    /\ main_pc = "idle"
    /\ DetectIdle /\ CsvIdle /\ SharedIdle
    /\ tw_now = 0
    /\ \E price \in UpdatePrices : \E size \in UpdateSizes :
          tw = CreatedWhale(price, size)

\* one observation of the whale, some time after the last one
UpdateCall(price, size) ==
    /\ tw # NoWhale
    /\ tw_now < MaxObservations
    /\ tw_now' = tw_now + 1
    /\ tw' = FullUpdate(tw, price, size, price * size, tw_now + 1)
    /\ UNCHANGED <<trackerVars, scoreVars, bookVars, streamVars, main_pc,
                   detectVars, csvVars, sharedVars>>

UpdateNext ==
    \E price \in UpdatePrices : \E size \in UpdateSizes : UpdateCall(price, size)

UpdateSpec == UpdateInit /\ [][UpdateNext]_vars

\* ------------------------------------------------------------ SharedSpec
\* The ingestion threads, one per symbol, inside _create_new_whale of the one
\* WhaleTracker that the analyzer owns. The tracker takes no lock, and
\* `self.total_whales_tracked += 1` is a load, an addition and a store: where
\* a thread can be interrupted between them is up to the interpreter, so the
\* load and the store are separate steps.
SharedInit ==
    /\ TrackerInit
    /\ call = NoCall
    /\ market_contexts = <<>>
    /\ stats = ZeroStats
    /\ score = NoScore
    /\ snapshot = NoSnapshot
    /\ order_history = <<>>
    /\ StreamIdle
    /\ main_pc = "idle"
    /\ AuxIdle

\* the whales of the symbol created so far
CreatedOf(symbol) == {w \in shared_active : w[1] = symbol}

\* _create_new_whale: the whale is built and put into active_whales[symbol]
\* and into the index
CreateInsert ==
    /\ \E symbol \in Symbols :
          /\ thread_pc[symbol] = "idle"
          /\ Cardinality(CreatedOf(symbol)) < MaxCreates
          /\ shared_active' =
                shared_active \union {<<symbol, Cardinality(CreatedOf(symbol)) + 1>>}
          /\ thread_pc' = [thread_pc EXCEPT ![symbol] = "load"]
    /\ UNCHANGED <<thread_tmp, shared_total>>
    /\ UNCHANGED <<trackerVars, scoreVars, bookVars, streamVars, main_pc,
                   updateVars, detectVars, csvVars>>

\* self.total_whales_tracked += 1: the load
CreateLoad ==
    /\ \E symbol \in Symbols :
          /\ thread_pc[symbol] = "load"
          /\ thread_tmp' = [thread_tmp EXCEPT ![symbol] = shared_total]
          /\ thread_pc' = [thread_pc EXCEPT ![symbol] = "store"]
    /\ UNCHANGED <<shared_total, shared_active>>
    /\ UNCHANGED <<trackerVars, scoreVars, bookVars, streamVars, main_pc,
                   updateVars, detectVars, csvVars>>

\* self.total_whales_tracked += 1: the store; _create_new_whale returns
CreateStore ==
    /\ \E symbol \in Symbols :
          /\ thread_pc[symbol] = "store"
          /\ shared_total' = thread_tmp[symbol] + 1
          /\ thread_pc' = [thread_pc EXCEPT ![symbol] = "idle"]
    /\ UNCHANGED <<thread_tmp, shared_active>>
    /\ UNCHANGED <<trackerVars, scoreVars, bookVars, streamVars, main_pc,
                   updateVars, detectVars, csvVars>>

SharedNext ==
    \/ CreateInsert
    \/ CreateLoad
    \/ CreateStore

SharedSpec == SharedInit /\ [][SharedNext]_vars

\* --------------------------------------------------------------- CsvSpec
\* CSVLogger on its own: the log_* calls, the writer thread and stop().
\* Queue.put counts the entry in unfinished_tasks, Queue.task_done uncounts
\* it, Queue.join returns when the count is 0.
EventKinds == {"whale", "spoofing", "snapshot", "alert"}

CsvInit ==
    /\ TrackerInit
    /\ call = NoCall
    /\ market_contexts = <<>>
    /\ stats = ZeroStats
    /\ score = NoScore
    /\ snapshot = NoSnapshot
    /\ order_history = <<>>
    /\ StreamIdle
    /\ main_pc = "idle"
    /\ AuxIdle

\* log_whale, log_spoofing, log_snapshot, log_alert: write_queue.put
LogEvent ==
    /\ csv_pc = "idle"
    /\ unfinished_tasks < MaxLogged
    /\ \E kind \in EventKinds : csv_queue' = Append(csv_queue, kind)
    /\ unfinished_tasks' = unfinished_tasks + 1
    /\ UNCHANGED <<csv_running, csv_pc, writer_pc>>
    /\ UNCHANGED <<trackerVars, scoreVars, bookVars, streamVars, main_pc,
                   updateVars, detectVars, sharedVars>>

\* _process_write_queue: `while self.running`
WriterCheck ==
    /\ writer_pc = "loop"
    /\ writer_pc' = IF csv_running THEN "body" ELSE "ended"
    /\ UNCHANGED <<csv_running, csv_queue, unfinished_tasks, csv_pc>>
    /\ UNCHANGED <<trackerVars, scoreVars, bookVars, streamVars, main_pc,
                   updateVars, detectVars, sharedVars>>

\* _process_write_queue, the loop body: an entry is taken, if there is one,
\* and written; task_done is not called
WriterBody ==
    /\ writer_pc = "body"
    /\ writer_pc' = "loop"
    /\ csv_queue' = IF csv_queue # <<>> THEN Tail(csv_queue) ELSE csv_queue
    /\ UNCHANGED <<csv_running, unfinished_tasks, csv_pc>>
    /\ UNCHANGED <<trackerVars, scoreVars, bookVars, streamVars, main_pc,
                   updateVars, detectVars, sharedVars>>

\* stop(): self.running = False, then write_queue.join() is entered
StopBegin ==
    /\ csv_pc = "idle"
    /\ csv_pc' = "joining"
    /\ csv_running' = FALSE
    /\ UNCHANGED <<csv_queue, unfinished_tasks, writer_pc>>
    /\ UNCHANGED <<trackerVars, scoreVars, bookVars, streamVars, main_pc,
                   updateVars, detectVars, sharedVars>>

\* stop(): join returns, the file handles are closed, stop returns
StopReturn ==
    /\ csv_pc = "joining"
    /\ unfinished_tasks = 0
    /\ csv_pc' = "returned"
    /\ UNCHANGED <<csv_running, csv_queue, unfinished_tasks, writer_pc>>
    /\ UNCHANGED <<trackerVars, scoreVars, bookVars, streamVars, main_pc,
                   updateVars, detectVars, sharedVars>>

CsvNext ==
    \/ LogEvent
    \/ WriterCheck
    \/ WriterBody
    \/ StopBegin
    \/ StopReturn

CsvSpec == CsvInit /\ [][CsvNext]_vars

\* the writer thread and the thread inside stop() are scheduled: a step of
\* theirs that stays possible is taken
CsvFairSpec ==
    /\ CsvSpec
    /\ WF_vars(WriterCheck)
    /\ WF_vars(WriterBody)
    /\ WF_vars(StopReturn)

\* ------------------------------------------------------------- DetectSpec
\* OrderBookAnalyzer.detect_spoofing as a function of snapshot_history.
\* A snapshot is [timestamp_local, whale_orders]: the local time in ms and
\* the keys <<price, side>> of whale_bids + whale_asks. A WhaleOrder takes
\* its timestamp when it is built, during the analysis of its snapshot.
OrderKeys == <<(<<1000, "bid">>), (<<1001, "ask">>)>>
\* the whale orders of one snapshot: none, or a bid and an ask placed together
WhaleOrderSets == {{}, {OrderKeys[1], OrderKeys[2]}}
SnapshotSteps == {100, 2000}      \* ms between snapshots: the stream's speed, a stall
LookbackSeconds == {1}

KeyOf(order) == <<order.price, order.side>>

WhaleOrderAt(key, t) == [price |-> key[1], side |-> key[2], timestamp |-> t]

\* whale_bids + whale_asks of a snapshot, bids first
CurrentWhaleOrders(snap) ==
    LET present(key) == key \in snap.whale_orders
        built == [i \in 1..Len(OrderKeys) |->
                     WhaleOrderAt(OrderKeys[i], snap.timestamp_local)]
    IN SelectSeq(built, LAMBDA o : present(KeyOf(o)))

\* detect_spoofing, the `lifespan < 2` test, in ms
ShortLived(snap, order) == snap.timestamp_local - order.timestamp < 2000

\* detect_spoofing, one pass of `for snapshot in recent_snapshots`:
\* acc = <<seen_orders in insertion order, disappeared_orders>>
DetectPass(acc, snap) ==
    LET seen == acc[1]
        seenKeys == {KeyOf(seen[i]) : i \in 1..Len(seen)}
        gone == SelectSeq(seen, LAMBDA o :
                    /\ KeyOf(o) \notin snap.whale_orders
                    /\ ShortLived(snap, o))
        fresh == SelectSeq(CurrentWhaleOrders(snap),
                           LAMBDA o : KeyOf(o) \notin seenKeys)
    IN <<seen \o fresh, acc[2] \o gone>>

RECURSIVE DetectLoop(_, _)
DetectLoop(acc, snaps) ==
    IF snaps = <<>> THEN acc
    ELSE DetectLoop(DetectPass(acc, Head(snaps)), Tail(snaps))

\* list(self.snapshot_history)[-n:]; with n = 0 the slice is the whole list
LastN(s, n) ==
    IF n = 0 \/ n >= Len(s) THEN s ELSE SubSeq(s, Len(s) - n + 1, Len(s))

detect_spoofing(history, lookback_seconds) ==
    IF Len(history) < lookback_seconds * 10 THEN <<>>
    ELSE DetectLoop(<<(<<>>), (<<>>)>>,
                    LastN(history, lookback_seconds * 10))[2]

DetectInit ==
    /\ TrackerInit
    /\ call = NoCall
    /\ market_contexts = <<>>
    /\ stats = ZeroStats
    /\ score = NoScore
    /\ snapshot = NoSnapshot
    /\ order_history = <<>>
    /\ StreamIdle
    /\ main_pc = "idle"
    /\ AuxIdle

Stalls(history) ==
    Cardinality({i \in 2..Len(history) :
        history[i].timestamp_local - history[i - 1].timestamp_local > 100})

\* analyze_snapshot: self.snapshot_history.append(snapshot)
AnalyzeAppend ==
    /\ Len(snapshot_history) < MaxSnapshots
    /\ \E orders \in WhaleOrderSets, step \in SnapshotSteps :
          LET t == IF snapshot_history = <<>> THEN 0
                   ELSE snapshot_history[Len(snapshot_history)].timestamp_local
                            + step
              appended == Append(snapshot_history,
                                 [timestamp_local |-> t, whale_orders |-> orders])
          IN /\ Stalls(appended) <= MaxStalls
             /\ snapshot_history' = appended
    /\ UNCHANGED disappeared_orders
    /\ UNCHANGED <<trackerVars, scoreVars, bookVars, streamVars, main_pc,
                   updateVars, csvVars, sharedVars>>

\* detect_spoofing(lookback_seconds): the returned list
DetectSpoofing ==
    /\ \E lookback_seconds \in LookbackSeconds :
          disappeared_orders' =
              <<"returned", detect_spoofing(snapshot_history, lookback_seconds)>>
    /\ UNCHANGED snapshot_history
    /\ UNCHANGED <<trackerVars, scoreVars, bookVars, streamVars, main_pc,
                   updateVars, csvVars, sharedVars>>

DetectNext ==
    \/ AnalyzeAppend
    \/ DetectSpoofing

DetectSpec == DetectInit /\ [][DetectNext]_vars

\* ===================================================================
\* Properties
\* ===================================================================

\* the step is one call of identify_whale (process_snapshot_whales returns
\* None, the clock does not move during a call)
IdentifyStep == now' = now /\ ret' # NoId

\* the step is one call of process_snapshot_whales
ProcessStep == now' = now /\ ret' = NoId

\* the whale the last identify_whale call returned: it is in the active set
\* under the returned id and carries the observed price and size
RetIdx == ActiveGet(ret[1], ret)

RetWhale == whales[RetIdx]

\* |x - cur| / cur <= num / den
WithinTol(x, cur, num, den) == cur > 0 /\ Abs(x - cur) * den <= num * cur

\* |x - cur| / cur < num / den
StrictlyWithinTol(x, cur, num, den) == cur > 0 /\ Abs(x - cur) * den < num * cur

\* the two prices differ by more than price_tolerance, relative to either
PricesApart(p, q) ==
    /\ Abs(p - q) * PriceTolDen > PriceTolNum * p
    /\ Abs(p - q) * PriceTolDen > PriceTolNum * q

\* the active whales of (symbol, side) within the active tolerances of an
\* observation
ActiveWithin(symbol, side, price, size) ==
    IF symbol \in DOMAIN active_whales
    THEN {i \in Range(active_whales[symbol]) :
            /\ whales[i].side = side
            /\ WithinTol(price, whales[i].current_price, PriceTolNum, PriceTolDen)
            /\ WithinTol(size, whales[i].current_size, SizeTolNum, SizeTolDen)}
    ELSE {}

\* the positions of recent_whales[symbol] whose whale is of this side, inside
\* the memory window and within k times the active tolerances of an
\* observation, strictly or not
RecentWithin(symbol, side, price, size, Within(_, _, _, _)) ==
    IF symbol \in DOMAIN recent_whales
    THEN {k \in 1..Len(recent_whales[symbol]) :
            LET w == whales[recent_whales[symbol][k]] IN
            /\ w.side = side
            /\ now - w.last_seen < memory_seconds * MsPerSecond
            /\ Within(price, w.current_price, 2 * PriceTolNum, PriceTolDen)
            /\ Within(size, w.current_size, 2 * SizeTolNum, SizeTolDen)}
    ELSE {}

\* the ids of the whales a list of the heap ws refers to
IdsOf(ws, refs) == {ws[refs[k]].whale_id : k \in 1..Len(refs)}

RecentIds(symbol) ==
    IF symbol \in DOMAIN recent_whales
    THEN {whales[i].whale_id : i \in Range(recent_whales[symbol])}
    ELSE {}

\* C1: two levels of one symbol and side, identified one after the other in
\* the same snapshot, whose prices differ by more than price_tolerance, get
\* two distinct whale ids, both in the active set afterwards.
C1_SeparateIds ==
    [][(IdentifyStep /\ ret # NoId
          /\ ret'[1] = ret[1] /\ ret'[2] = ret[2]
          /\ PricesApart(RetWhale.current_price, RetWhale'.current_price))
        => (ret' # ret /\ {ret, ret'} \subseteq ActiveIds(ret[1])')]_vars

\* C2: every whale created gets an id no earlier whale has, and creating a
\* whale replaces no entry of the active set: no two TrackedWhale objects
\* share an id.
C2_FreshIds ==
    \A i, j \in 1..Len(whales) : i # j => whales[i].whale_id # whales[j].whale_id

\* C3: an observation within price_tolerance and size_tolerance of the
\* current values of an active whale of its symbol and side is given that
\* whale's id, and no whale is created.
C3_SameIdForEveryMatch ==
    [][IdentifyStep =>
        \A i \in ActiveWithin(ret'[1], ret'[2], RetWhale'.current_price,
                              RetWhale'.current_size) :
            ret' = whales[i].whale_id /\ Len(whales') = Len(whales)]_vars

\* C3 as amended: such an observation is given the id of one of the active
\* whales of its symbol and side that are within the tolerances of it (of the
\* whale, when there is only one), no whale is created and no whale enters or
\* leaves the active set or the recently-disappeared buffer.
C3_IdOfSomeMatch ==
    [][IdentifyStep =>
        LET within == ActiveWithin(ret'[1], ret'[2], RetWhale'.current_price,
                                   RetWhale'.current_size)
        IN within # {} =>
             /\ ret' \in {whales[i].whale_id : i \in within}
             /\ Len(whales') = Len(whales)
             /\ active_whales' = active_whales
             /\ recent_whales' = recent_whales]_vars

\* C3 witness: the returned whale was updated through the active path at a
\* later time than its creation, next to another active whale of its side.
C3_Witness ==
    /\ ret # NoId
    /\ RetWhale.last_seen > RetWhale.first_seen
    /\ ghost[RetIdx].reactivations = 0
    /\ \E j \in Range(active_whales[ret[1]]) :
          j # RetIdx /\ whales[j].side = RetWhale.side

\* C4: a whale of the recently-disappeared buffer, observed again inside the
\* memory window on its symbol and side with price and size within twice the
\* active tolerances, is reactivated: its id is returned and is in the
\* active set.
C4_Reactivated ==
    [][IdentifyStep =>
        \A k \in RecentWithin(ret'[1], ret'[2], RetWhale'.current_price,
                              RetWhale'.current_size, WithinTol) :
            /\ ret' = whales[recent_whales[ret'[1]][k]].whale_id
            /\ ret' \in IdsOf(whales', active_whales'[ret'[1]])]_vars

\* C4 as amended: when no active whale of the symbol and side is within the
\* active tolerances of the observation, the first whale of the buffer that
\* is of this side, inside the memory window and strictly within twice the
\* active tolerances is reactivated: its id is returned and is in the active
\* set, one entry with this id has left the buffer and no whale is created.
C4_FirstRecentReactivated ==
    [][IdentifyStep =>
        LET symbol == ret'[1]
            price == RetWhale'.current_price
            size == RetWhale'.current_size
            hits == RecentWithin(symbol, ret'[2], price, size, StrictlyWithinTol)
        IN (ActiveWithin(symbol, ret'[2], price, size) = {} /\ hits # {}) =>
             LET k == CHOOSE k \in hits : \A j \in hits : k <= j
                 id == whales[recent_whales[symbol][k]].whale_id
             IN /\ ret' = id
                /\ id \in IdsOf(whales', active_whales'[symbol])
                /\ Len(whales') = Len(whales)
                /\ Len(recent_whales'[symbol]) < Len(recent_whales[symbol])
                /\ whales'[RetIdx'].disappearances > whales[RetIdx'].disappearances
       ]_vars

\* C4 witness: the returned whale has just been reactivated, at a later time
\* than it was last seen before, while another whale of its side is active.
C4_Witness ==
    /\ ret # NoId
    /\ ghost[RetIdx].reactivations >= 1
    /\ ghost[RetIdx].closed = ghost[RetIdx].reactivations
    /\ ghost[RetIdx].active_since = now
    /\ RetWhale.first_seen < now
    /\ \E j \in Range(active_whales[ret[1]]) :
          j # RetIdx /\ whales[j].side = RetWhale.side

\* C5: the disappearance count of every whale is the number of times it was
\* reactivated.
C5_CountIsReactivations ==
    \A i \in 1..Len(whales) : whales[i].disappearances = ghost[i].reactivations

\* C6: a whale that was active over two intervals (reactivated once, marked
\* disappeared twice) has total_duration equal to the sum of the two
\* intervals.
C6_SumOfIntervals ==
    \A i \in 1..Len(whales) :
        (ghost[i].reactivations = 1 /\ ghost[i].closed = 2)
            => whales[i].total_duration = ghost[i].active_sum

\* C7: process_snapshot_whales changes the disappearance count of no whale.
C7_ProcessKeepsCount ==
    [][ProcessStep =>
        \A i \in 1..Len(whales) :
            whales'[i].disappearances = whales[i].disappearances]_vars

\* C8: no whale id is in the active set and in the recently-disappeared
\* buffer of its symbol at once.
C8_ActiveXorRecent ==
    \A symbol \in DOMAIN active_whales :
        ActiveIds(symbol) \cap RecentIds(symbol) = {}

\* WhaleTracker configures no capacity. A capacity one below the number of
\* whales (of disappearance events) a run feeds stands for the configured one.
RecentCapacity == MaxWhales - 1

HistoryCapacity == MaxHistory - 1

IndexCapacity == MaxWhales - 1

\* C9: the recently-disappeared buffer of a symbol never holds more whales
\* than its capacity.
C9_RecentBounded ==
    \A symbol \in DOMAIN recent_whales :
        Len(recent_whales[symbol]) <= RecentCapacity

\* C10: whale_history and each whale_index[symbol][side] never hold more
\* entries than their capacities.
C10_HistoryAndIndexBounded ==
    /\ Len(whale_history) <= HistoryCapacity
    /\ \A symbol \in DOMAIN whale_index : \A side \in DOMAIN whale_index[symbol] :
          Cardinality(whale_index[symbol][side]) <= IndexCapacity

\* get_whale_summary: the whale object is a value of the active dict of
\* some symbol
IsActive(i) == \E symbol \in DOMAIN active_whales : i \in Range(active_whales[symbol])

\* get_whale_summary: total duration including previous appearances
LifetimeDuration(i) ==
    IF IsActive(i)
    THEN whales[i].total_duration + (now - whales[i].first_seen)
    ELSE whales[i].total_duration

\* C11: after process_snapshot_whales(symbol, ids) the recently-disappeared
\* buffer of that symbol holds no whale whose last_seen is more than
\* memory_seconds in the past.
C11_ProcessPurgesRecent ==
    [][\A symbol \in DOMAIN active_whales :
         \A ids \in SUBSET ActiveIds(symbol) :
            ProcessSnapshotOn(symbol, ids) =>
                \A i \in Range(recent_whales'[symbol]) :
                    now' - whales'[i].last_seen <= memory_seconds * MsPerSecond]_vars

\* the active whales of the symbol that process_snapshot_whales(symbol, ids)
\* does not find in ids
Absent(symbol, ids) ==
    {i \in Range(active_whales[symbol]) : whales[i].whale_id \notin ids}

\* C12: process_snapshot_whales(symbol, ids) moves exactly the active whales
\* of the symbol whose id is not in ids from the active set to the
\* recently-disappeared buffer and adds last_seen - first_seen to their
\* total_duration; every other whale, and the active set and the buffer of
\* every other symbol, stay as they were.
C12_ProcessFrame ==
    [][\A symbol \in DOMAIN active_whales :
         \A ids \in SUBSET ActiveIds(symbol) :
            ProcessSnapshotOn(symbol, ids) =>
              LET moved == Absent(symbol, ids) IN
              /\ Range(active_whales'[symbol]) = Range(active_whales[symbol]) \ moved
              /\ recent_whales'[symbol] = recent_whales[symbol]
                    \o SelectSeq(active_whales[symbol], LAMBDA i : i \in moved)
              /\ \A i \in moved :
                    whales'[i].total_duration =
                        whales[i].total_duration
                            + (whales[i].last_seen - whales[i].first_seen)
              /\ \A i \in (1..Len(whales)) \ moved : whales'[i] = whales[i]
              /\ \A other \in DOMAIN active_whales \ {symbol} :
                    /\ active_whales'[other] = active_whales[other]
                    /\ recent_whales'[other] = recent_whales[other]]_vars

\* a snapshot call has moved a whale that had been seen again after its
\* creation while another whale of the symbol stayed active
C12_Witness ==
    /\ ret = NoId
    /\ \E symbol \in DOMAIN active_whales :
          /\ active_whales[symbol] # <<>>
          /\ \E k \in 1..Len(recent_whales[symbol]) :
                whales[recent_whales[symbol][k]].total_duration > 0

\* C13: the lifetime duration of a whale never decreases, across updates,
\* disappearance and reactivation.
C13_LifetimeMonotone ==
    [][\A i \in 1..Len(whales) : LifetimeDuration(i)' >= LifetimeDuration(i)]_vars

\* a call of calculate_spoof_score has returned
Scored == score # NoScore

\* C14: every returned score has duration_score in 0..25, size_pattern_score
\* in 0..25, distance_score in 0..20, behavior_score in 0..20, context_score
\* in 0..10, and total_score equal to their sum and within 0..100.
C14_ScoresInRange ==
    Scored =>
        /\ score.duration_score \in 0..25
        /\ score.size_pattern_score \in 0..25
        /\ score.distance_score \in 0..20
        /\ score.behavior_score \in 0..20
        /\ score.context_score \in 0..10
        /\ score.total_score =
              score.duration_score + score.size_pattern_score
                + score.distance_score + score.behavior_score
                + score.context_score
        /\ score.total_score \in 0..100

\* C15: the confidence level is high when total_score >= 60, medium when
\* 40 <= total_score < 60, low when 25 <= total_score < 40, and unlikely
\* otherwise.
C15_ConfidenceOfTotal ==
    Scored =>
        /\ (score.confidence_level = "high") = (score.total_score >= 60)
        /\ (score.confidence_level = "medium")
              = (40 <= score.total_score /\ score.total_score < 60)
        /\ (score.confidence_level = "low")
              = (25 <= score.total_score /\ score.total_score < 40)
        /\ (score.confidence_level = "unlikely") = (score.total_score < 25)

\* scores on both sides of every threshold of the confidence mapping exist;
\* this one is a score of exactly 60
C15_Witness == Scored /\ score.total_score = 60 /\ score.confidence_level = "high"

\* C16: the pattern is flickering when the disappearance count is at least the
\* profile's flickering threshold; otherwise size_manipulation when
\* (max_size_seen - min_size_seen) / initial_size exceeds the profile's
\* size-variance threshold; otherwise classic when distance_score >= 15 and
\* duration_score >= 20; otherwise unknown. Where initial_size is 0 the
\* quotient does not exist and exceeds nothing.
C16_PatternPriority ==
    Scored =>
        LET calib == get_calibration(call.symbol)
            w == call.whale
            flickers == w.disappearances >= calib.flickering_threshold
            varies == /\ w.initial_size # 0
                      /\ (w.max_size_seen - w.min_size_seen) * 100
                            > calib.size_variance_threshold * w.initial_size
            high == score.distance_score >= 15 /\ score.duration_score >= 20
        IN /\ flickers => score.pattern_type = "flickering"
           /\ (~flickers /\ varies) => score.pattern_type = "size_manipulation"
           /\ (~flickers /\ ~varies /\ high) => score.pattern_type = "classic"
           /\ (~flickers /\ ~varies /\ ~high) => score.pattern_type = "unknown"

\* a whale over the flickering threshold and over the size-variance
\* threshold, at a distance and a duration that score high, is flickering
C16_Witness ==
    /\ Scored
    /\ score.pattern_type = "flickering"
    /\ SizeVarianceOver(get_calibration(call.symbol), call.whale)
    /\ score.distance_score >= 15
    /\ score.duration_score >= 20

\* the score of the call with the whale's disappearance count set to n
ScoreWithCount(n) ==
    calculate_spoof_score(Detector, [call.whale EXCEPT !.disappearances = n],
                          call.symbol, call.duration, call.mid_price)

\* C17: of two whales that differ only in their disappearance count, scored
\* with the same symbol, context, duration and mid price, the one with the
\* larger count gets a total_score at least as large.
C17_MonotoneInCount ==
    Scored =>
        \A n \in 0..MaxDisappearances :
            /\ n >= call.whale.disappearances
                  => ScoreWithCount(n).total_score >= score.total_score
            /\ n <= call.whale.disappearances
                  => ScoreWithCount(n).total_score <= score.total_score

\* a scored whale between a whale with fewer and a whale with more
\* disappearances whose behaviour points differ from its own
C17_Witness ==
    /\ Scored
    /\ score.behavior_score = 10
    /\ \E n \in 0..MaxDisappearances : ScoreWithCount(n).behavior_score = 0
    /\ \E n \in 0..MaxDisappearances : ScoreWithCount(n).behavior_score = 20

\* C18: a call of calculate_spoof_score with the whale, symbol, duration, mid
\* price and stored context of an earlier call returns the SpoofScore the
\* earlier call returned, whatever the statistics counters have become.
C18_SameScoreAgain ==
    [][(Scored /\ ScoreCall) => score' = score]_vars

\* the second call has returned, after the first had changed the counters
C18_Witness ==
    /\ Scored
    /\ stats.total_analyzed = 2
    /\ stats.high_confidence_spoofs = 2

\* C19: for every symbol and every whale, a duration below 5 seconds gets
\* duration_score = 0.
C19_HardFloor ==
    (Scored /\ call.duration < 5 * MsPerSecond) => score.duration_score = 0

\* a HIGH_VOL symbol, whose window opens at 5 s, scored just below 5 s
C19_Witness ==
    /\ Scored
    /\ call.symbol \in HighVolSymbols
    /\ call.duration = 4999
    /\ score.duration_score = 0

\* the documented default context: average order size 50000, volatility
\* 2.0, liquidity score 0.5
DocumentedDefault ==
    [DefaultContext EXCEPT !.avg_order_size = 50000,
                           !.recent_volatility = 20,
                           !.liquidity_score = 50]

\* C20: with no market context stored for the symbol, calculate_spoof_score
\* returns the score it returns with the documented default context stored
\* for the symbol, for every whale, zero initial size and mid price 0
\* included.
C20_DefaultContext ==
    (Scored /\ call.symbol \notin DOMAIN market_contexts) =>
        score = calculate_spoof_score(
                    [market_contexts |-> (call.symbol :> DocumentedDefault),
                     stats |-> stats],
                    call.whale, call.symbol, call.duration, call.mid_price)

\* a whale with zero initial size scored at mid price 0 while only another
\* symbol has a stored context
C20_Witness ==
    /\ Scored
    /\ call.symbol \notin DOMAIN market_contexts
    /\ market_contexts # <<>>
    /\ call.whale.initial_size = 0
    /\ call.mid_price = 0

\* C21: a snapshot built from a raw update with a non-empty bid side and an
\* empty ask side has spread = 0, spread_bps = 0 and mid_price = 0.
C21_EmptyAskSide ==
    (snapshot # NoSnapshot /\ snapshot.bids # <<>> /\ snapshot.asks = <<>>) =>
        /\ snapshot.spread = 0
        /\ snapshot.spread_bps = 0
        /\ snapshot.mid_price = 0

\* C22: every stored market context has a liquidity_score within [0, 1].
C22_LiquidityInUnitRange ==
    \A symbol \in DOMAIN market_contexts :
        /\ 0 <= market_contexts[symbol].liquidity_score
        /\ market_contexts[symbol].liquidity_score <= 100

\* the order sizes of a snapshot, bids then asks
LevelSizes(snap) ==
    [k \in 1..(Len(snap.bids) + Len(snap.asks)) |->
        (snap.bids \o snap.asks)[k].size]

\* the last OrderHistoryCapacity elements of a list
KeepNewest(s) ==
    IF Len(s) <= OrderHistoryCapacity THEN s
    ELSE SubSeq(s, Len(s) - OrderHistoryCapacity + 1, Len(s))

\* C23: update_market_context(symbol, snapshot) appends the order sizes of
\* the snapshot to the rolling sample of the symbol, the oldest entries
\* leaving first when the capacity is reached.
C23_SampleGrows ==
    [][UpdateMarketContext =>
        Len(order_history'[snapshot.symbol]) =
            Len(KeepNewest(HistoryOf(snapshot.symbol) \o LevelSizes(snapshot)))]_vars

\* the order in which the steps of one update are to run
ClaimedOrder == <<"snapshot", "context", "identify", "process", "score">>

IsPrefix(s, t) == Len(s) <= Len(t) /\ SubSeq(t, 1, Len(s)) = s

\* the steps of the update up to the hand-over to the sinks
DetectionSteps(stream) == SelectSeq(steps[stream], LAMBDA x : x # "sinks")

\* C24: the steps of every update run in the order snapshot build,
\* market-context update, identification, process_snapshot_whales, scoring of
\* the disappeared whales: the steps run so far are the beginning of that
\* order, so the market context is updated before a whale is scored
C24_StepOrder ==
    \A s \in Streams : IsPrefix(DetectionSteps(s), ClaimedOrder)

\* on_close has just replaced the connection of the stream
Replaced(stream) ==
    /\ stream \in DOMAIN connections
    /\ connections'[stream] # connections[stream]

\* C25: when on_close reconnects a stream (the manager runs, fewer than
\* max_reconnect_attempts attempts), the replacement connection is created
\* and its thread is started, so that messages reach the callback again
C25_ReplacementStarted ==
    [][\A s \in Streams :
          Replaced(s) => conns'[connections'[s]].state # "created"]_vars

C27_ExceptionCaught ==
    [][errors' # errors =>
          /\ \A c \in DOMAIN conns :
                conns[c].state \in PipelineStates
                    => conns'[c].state \in PipelineStates \union {"open"}
          /\ \E c \in DOMAIN conns :
                conns[c].state \in PipelineStates /\ conns'[c].state = "open"
          /\ inbox' = inbox]_vars

\* the first update of a stream raised, and the stream's next update has
\* been processed to the end by the same thread
C27_Witness ==
    \E s \in Streams :
        /\ <<s, 1>> \in errors
        /\ processed[s] = <<1, 2>>
        /\ steps[s] # <<>>
        /\ steps[s][Len(steps[s])] = "sinks"
        /\ ConnOf(s).state = "open"

\* CSVLogger configures no capacity for write_queue. A capacity of as many
\* entries as one stream feeds in a run stands for the configured one.
QueueCapacity == MaxUpdates

\* C28: the queue to the sink never holds more than its capacity
C28_QueueBounded == Len(write_queue) <= QueueCapacity

\* the number of threads of the stream that are inside process_order_book
InFlight(stream) ==
    Cardinality({c \in DOMAIN conns :
                    conns[c].stream = stream /\ conns[c].state \in PipelineStates})

\* C29: the updates of one stream are processed in the order they arrived
\* (they are numbered in arrival order) and one at a time, whatever the other
\* streams' threads do and whether or not the stream was reconnected
C29_ArrivalOrder ==
    \A s \in Streams :
        /\ \A i, j \in 1..Len(processed[s]) :
              i < j => processed[s][i] < processed[s][j]
        /\ InFlight(s) <= 1

\* two updates of a stream arrived before the first was dispatched, both were
\* dispatched, and the thread of another stream is inside process_order_book
C29_Witness ==
    \E s, o \in Streams :
        /\ s # o
        /\ Len(processed[s]) >= 2
        /\ arrivals[s] >= 2
        /\ InFlight(o) = 1
        /\ Len(conns) > Len(StreamOrder)

\* C30: once stop() has been called no thread begins to process an update,
\* and stop() releases the shared resources only when no process_order_book
\* call is in flight
C30_GracefulStop ==
    [][/\ stop_pc # "none" => processed' = processed
       /\ (stop_pc' = "released" /\ stop_pc # "released")
              => \A c \in DOMAIN conns : conns'[c].state \notin PipelineStates
      ]_vars

\* C32: update appends to the size-change log only when the new size differs
\* from the current size by more than 5%, and to the price-move log only when
\* the new price differs from the current price by more than 0.1%; it always
\* sets the current price, size and value to the observation, refreshes
\* last_seen, and keeps the maximum and minimum size seen
C32_UpdateLogs ==
    [][\A price \in UpdatePrices : \A size \in UpdateSizes :
          UpdateCall(price, size) =>
             /\ tw'.size_changes # tw.size_changes =>
                   /\ Abs(size - tw.current_size) * 100 > 5 * tw.current_size
                   /\ tw'.size_changes =
                         Append(tw.size_changes, <<tw_now', size>>)
             /\ tw'.price_moves # tw.price_moves =>
                   /\ Abs(price - tw.current_price) * 1000 > tw.current_price
                   /\ tw'.price_moves =
                         Append(tw.price_moves, <<tw_now', price>>)
             /\ tw'.current_price = price
             /\ tw'.current_size = size
             /\ tw'.current_value_usd = price * size
             /\ tw'.last_seen = tw_now'
             /\ tw'.max_size_seen >= size /\ tw'.max_size_seen >= tw.max_size_seen
             /\ tw'.max_size_seen \in {size, tw.max_size_seen}
             /\ tw'.min_size_seen <= size /\ tw'.min_size_seen <= tw.min_size_seen
             /\ tw'.min_size_seen \in {size, tw.min_size_seen}]_vars

\* two observations, of which one moved size and price by more than the
\* thresholds and was logged and the other did not and was not; the current
\* size lies strictly between the extremes
C32_Witness ==
    /\ tw # NoWhale
    /\ tw_now = 2
    /\ Len(tw.size_changes) = 1
    /\ Len(tw.price_moves) = 1
    /\ tw.min_size_seen < tw.current_size
    /\ tw.current_size < tw.max_size_seen

\* the whales of recent_whales[symbol] that are of this side, whose last_seen
\* is memory_seconds or more in the past, and that the observation would
\* match (strictly within twice the active tolerances)
StaleWithin(symbol, side, price, size) ==
    IF symbol \in DOMAIN recent_whales
    THEN {i \in Range(recent_whales[symbol]) :
            /\ whales[i].side = side
            /\ now - whales[i].last_seen >= memory_seconds * MsPerSecond
            /\ StrictlyWithinTol(price, whales[i].current_price,
                                 2 * PriceTolNum, PriceTolDen)
            /\ StrictlyWithinTol(size, whales[i].current_size,
                                 2 * SizeTolNum, SizeTolDen)}
    ELSE {}

\* C33: a recently-disappeared whale whose last_seen is memory_seconds or
\* more in the past is never reactivated: an observation that would match it
\* yields a newly created whale, and the stale entry leaves the buffer.
C33_StaleReplaced ==
    [][IdentifyStep =>
        \A i \in StaleWithin(ret'[1], ret'[2], RetWhale'.current_price,
                             RetWhale'.current_size) :
            /\ i \notin Range(active_whales'[ret'[1]])
            /\ Len(whales') = Len(whales) + 1
            /\ whales'[Len(whales')].whale_id = ret'
            /\ i \notin Range(recent_whales'[ret'[1]])]_vars

\* C33 as amended: such a whale is never reactivated; when no active whale of
\* the symbol and side is within the active tolerances of the observation the
\* stale entry leaves the buffer, and when in addition no whale of the buffer
\* inside the memory window matches, a whale is created and its id returned.
C33_StaleNeverReactivated ==
    [][IdentifyStep =>
        LET symbol == ret'[1]
            side == ret'[2]
            price == RetWhale'.current_price
            size == RetWhale'.current_size
        IN \A i \in StaleWithin(symbol, side, price, size) :
            /\ i \notin Range(active_whales'[symbol])
            /\ ActiveWithin(symbol, side, price, size) = {}
                  => i \notin Range(recent_whales'[symbol])
            /\ (/\ ActiveWithin(symbol, side, price, size) = {}
                /\ RecentWithin(symbol, side, price, size, StrictlyWithinTol) = {})
                  => /\ Len(whales') = Len(whales) + 1
                     /\ whales'[Len(whales')].whale_id = ret']_vars

\* C33 witness: the returned whale has just been created by an observation
\* that a whale of its symbol and side would match, had it not disappeared
\* and been last seen memory_seconds or more ago; that whale has left the
\* buffer and is not active.
C33_Witness ==
    /\ ret # NoId
    /\ RetWhale.first_seen = now
    /\ \E i \in 1..Len(whales) :
          /\ i # RetIdx
          /\ whales[i].symbol = ret[1]
          /\ whales[i].side = RetWhale.side
          /\ ghost[i].closed >= 1
          /\ now - whales[i].last_seen >= memory_seconds * MsPerSecond
          /\ StrictlyWithinTol(RetWhale.current_price, whales[i].current_price,
                               2 * PriceTolNum, PriceTolDen)
          /\ StrictlyWithinTol(RetWhale.current_size, whales[i].current_size,
                               2 * SizeTolNum, SizeTolDen)
          /\ i \notin Range(active_whales[ret[1]])
          /\ i \notin Range(recent_whales[ret[1]])

\* C34: every whale of the active set of a symbol has its id in
\* whale_index[symbol][side] (the sides are bid and ask), also after it was
\* reactivated from the recently-disappeared buffer: the active matching,
\* which walks the index, considers every active whale.
C34_ActiveIndexed ==
    \A symbol \in DOMAIN active_whales :
        \A i \in Range(active_whales[symbol]) :
            /\ symbol \in DOMAIN whale_index
            /\ whales[i].side \in DOMAIN whale_index[symbol]
            /\ whales[i].whale_id \in whale_index[symbol][whales[i].side]
            /\ ActiveGet(symbol, whales[i].whale_id) # 0

\* C34 witness: a whale that was reactivated is active, next to another
\* active whale of its symbol
C34_Witness ==
    \E symbol \in DOMAIN active_whales :
        \E i, j \in Range(active_whales[symbol]) :
            /\ i # j
            /\ ghost[i].reactivations >= 1
            /\ ghost[i].closed = ghost[i].reactivations

\* identify_whale(symbol, side, price, size) is the step: a call that leaves
\* a whale with this price and size, seen now, and that is one of the three
\* outcomes of identify_whale
IdentifyOn(lv) ==
    /\ IdentifyStep
    /\ \E i \in 1..Len(whales') :
          /\ whales'[i].current_price = lv[3]
          /\ whales'[i].current_size = lv[4]
          /\ whales'[i].last_seen = now
    /\ IdentifyActiveOn(lv) \/ IdentifyReactivateOn(lv) \/ IdentifyCreateOn(lv)

\* C35: identify_whale(symbol, side, ...) returns the id of a whale of that
\* symbol and side, which is active under this id afterwards, and it changes
\* (updates, reactivates) no whale of another symbol or of the opposite
\* side, whatever the price and size.
C35_OwnSymbolAndSide ==
    [][\A lv \in Levels :
          IdentifyOn(lv) =>
             /\ \E i \in Range(active_whales'[lv[1]]) :
                   /\ whales'[i].whale_id = ret'
                   /\ whales'[i].symbol = lv[1]
                   /\ whales'[i].side = lv[2]
             /\ \A i \in 1..Len(whales) :
                   whales'[i] # whales[i] =>
                      whales[i].symbol = lv[1] /\ whales[i].side = lv[2]
             /\ \A s \in DOMAIN active_whales \ {lv[1]} :
                   /\ active_whales'[s] = active_whales[s]
                   /\ recent_whales'[s] = recent_whales[s]]_vars

\* C35 witness: the observation created a whale although a whale of its
\* symbol with the same price and size, of the opposite side, is in the
\* recently-disappeared buffer and inside the memory window
C35_Witness ==
    /\ ret # NoId
    /\ RetWhale.first_seen = now
    /\ \E j \in Range(recent_whales[ret[1]]) :
          /\ whales[j].side # RetWhale.side
          /\ whales[j].current_price = RetWhale.current_price
          /\ whales[j].current_size = RetWhale.current_size
          /\ now - whales[j].last_seen < memory_seconds * MsPerSecond

\* C36: reconnect_attempts of a stream never exceeds max_reconnect_attempts,
\* whatever the opens and closes of the stream, and it is 0 right after a
\* connection of the stream opened.
C36_AttemptsBounded ==
    [][/\ \A s \in Streams :
             /\ reconnect_attempts[s] <= max_reconnect_attempts
             /\ reconnect_attempts'[s] <= max_reconnect_attempts
       /\ \A c \in DOMAIN conns :
             (conns[c].state = "connecting" /\ conns'[c].state = "open")
                => reconnect_attempts'[conns[c].stream] = 0]_vars

\* C36 witness: the connection of one stream opened and closed and the close
\* was counted, and the connection of another stream is open
C36_Witness ==
    \E s, o \in Streams :
        /\ s # o
        /\ processed[s] # <<>>
        /\ reconnect_attempts[s] = 1
        /\ ConnOf(s).state = "created"
        /\ ConnOf(o).state = "open"
        /\ reconnect_attempts[o] = 0

\* no handler of the manager is running: no thread is inside
\* process_order_book or inside on_close
HandlersFinished ==
    \A c \in DOMAIN conns :
        conns[c].state \notin PipelineStates \union {"sleeping"}

\* C37: when stop() is called while on_close waits out the reconnect delay,
\* no connection of the stream is created or registered afterwards: once
\* stop() has returned and the handlers have finished, every entry of
\* connections is a connection that stop() closed.
C37_NoConnectionAfterStop ==
    (stop_pc = "released" /\ HandlersFinished) =>
        \A s \in DOMAIN connections : ConnOf(s).close_requested

\* the positions of a thread inside analyze_snapshot, which mutates the
\* tracker (identify_whale, process_snapshot_whales) and the analyzer
\* (snapshot_history)
AnalyzerStates == {"detect", "track", "sinks"}

C39_NoLostIncrement ==
    (\A symbol \in Symbols : thread_pc[symbol] = "idle")
        => shared_total = Cardinality(shared_active)

\* C38: CSVLogger.stop() returns, after any sequence of log_* calls and
\* whether or not the writer thread had taken the queued entries: a stop()
\* that has been entered eventually returns.
C38_StopReturns == (csv_pc = "joining") ~> (csv_pc = "returned")

\* C40: within one detect_spoofing call an order, identified by
\* (price, side), is in the returned list of disappeared orders at most
\* once, however many later snapshots of the window lack it.
C40_AddedOnce ==
    disappeared_orders[1] = "returned" =>
        LET out == disappeared_orders[2]
        IN \A i, j \in 1..Len(out) : KeyOf(out[i]) = KeyOf(out[j]) => i = j

====
